---- MODULE Spec2Model ----
(***************************************************************************)
(* A model of the X.509 structural decoder of src/src/x509.rs.             *)
(*                                                                         *)
(* A byte buffer is a sequence of integers 0..255.  A Rust slice           *)
(* &buf[lo..hi] is the pair (lo, hi) of 0-based offsets into the buffer,   *)
(* so that Offset::offset (a pointer difference) is a difference of        *)
(* offsets and a raw byte span is a record [lo, hi].                       *)
(*                                                                         *)
(* A decoder F(buf, lo, hi) returns                                        *)
(*   Ok(pos, v)      IResult::Ok((&buf[pos..hi], v))                       *)
(*   Fail(kind, e)   nom::Err::{Incomplete, Error, Failure}(e)             *)
(*   Panic           the call does not return: the thread panics.          *)
(*                                                                         *)
(* A Rust chain `let (i, x) = f(i)?; rest` is AndThen(f(..), LAMBDA x: rest)*)
(* where x is the whole Ok result: x.pos is the new i and x.val the value. *)
(***************************************************************************)
EXTENDS Integers, Sequences, FiniteSets, TLC

VARIABLES
  buf,       \* the immutable input buffer handed to the decode call
  call,      \* the decode entry point that was called ("none": not yet)
  res,       \* what that call returned
  fields,    \* the fields of the TBS body whose decoders that call ran, in order
  validity,  \* a Validity value {not_before, not_after}
  now,       \* the clock read by ASN1Time::now()
  query,     \* the last Validity query made ("none": not yet)
  answer,    \* what that query returned
  shown,     \* what formatting the decoded Name with Display returned and wrote
  loop       \* X509Name::from_der run one round of its loops at a time

vars == <<buf, call, res, fields, validity, now, query, answer, shown, loop>>

(***************************************************************************)
(* Results                                                                 *)
(***************************************************************************)
Ok(pos, v) == [ok |-> TRUE, pos |-> pos, val |-> v]
Fail(kind, e) == [ok |-> FALSE, kind |-> kind, err |-> e]
Incomplete == Fail("Incomplete", "Needed")
Error(e) == Fail("Error", e)
Panic == Fail("Panic", "index out of range")
NoResult == Fail("None", "not called")

IsPanic(r) == ~r.ok /\ r.kind = "Panic"

None == [some |-> FALSE]
Some(v) == [some |-> TRUE, v |-> v]
\* Option::unwrap_or
UnwrapOr(o, d) == IF o.some THEN o.v ELSE d

Span(lo, hi) == [lo |-> lo, hi |-> hi]
Byte(b, p) == b[p + 1]
Bytes(b, lo, hi) == SubSeq(b, lo + 1, hi)

\* The `?` operator: a failure is returned as it is, a success goes on with K
AndThen(r, K(_)) == IF r.ok THEN K(r) ELSE r

\* nom::combinator::complete: Incomplete becomes Error(Complete)
complete(r) == IF ~r.ok /\ r.kind = "Incomplete" THEN Error("NomError(Complete)") ELSE r

\* nom::combinator::opt at position lo: a recoverable Error becomes Ok(None)
opt(r, lo) ==
  IF r.ok THEN Ok(r.pos, Some(r.val))
  ELSE IF r.kind = "Error" THEN Ok(lo, None)
  ELSE r

\* Result::or(Err(Err::Error(e))) / map_err(|_| e.into()): every failure becomes Error(e)
or_err(r, e) ==
  IF ~r.ok /\ r.kind \in {"Incomplete", "Error", "Failure"} THEN Error(e) ELSE r

\* One round of nom::multi::many0 / many1 at position lo with acc collected so
\* far: a recoverable error ends the list, an element that consumed nothing is
\* an error, any other element goes on with K
many_round(r, lo, acc, e, K(_)) ==
  IF r.ok THEN (IF r.pos = lo THEN Error(e) ELSE K(r))
  ELSE IF r.kind = "Error" THEN Ok(lo, acc)
  ELSE r

\* The first round of nom::multi::many1: the first element is required
many1_first(r, K(_)) ==
  IF r.ok THEN K(r)
  ELSE IF r.kind = "Error" THEN Error("NomError(Many1)")
  ELSE r

(***************************************************************************)
(* The TLV codec (der_parser): spec section 4.1                            *)
(***************************************************************************)
\* der_parser::ber::BerTag: the universal tag numbers
BerTag ==
  [Boolean |-> 1, Integer |-> 2, BitString |-> 3, OctetString |-> 4, Oid |-> 6,
   Enumerated |-> 10, Utf8String |-> 12, Sequence |-> 16, Set |-> 17,
   NumericString |-> 18, PrintableString |-> 19, T61String |-> 20, Ia5String |-> 22,
   UtcTime |-> 23, GeneralizedTime |-> 24]

RECURSIVE HighTag(_, _, _, _, _)
\* parse_identifier's loop over the bytes of a high tag number (0x1f), which
\* are 5 at most
HighTag(b, lo, hi, n, c) ==
  IF n >= hi - lo THEN Error("Der(InvalidTag)")
  ELSE IF n > 5 THEN Error("Der(InvalidTag)")
  ELSE IF Byte(b, lo + n) < 128 THEN Ok(lo + n + 1, c * 128 + Byte(b, lo + n))
  ELSE HighTag(b, lo, hi, n + 1, c * 128 + (Byte(b, lo + n) % 128))

\* the class, constructed bit and tag number of identifier octet x, the tag
\* number being the result t
Identifier(x, t) ==
  AndThen(t, LAMBDA n : Ok(n.pos, [class |-> x \div 64, structured |-> (x \div 32) % 2,
                                   tag |-> n.val]))

\* der_parser::ber::parse_identifier
parse_identifier(b, lo, hi) ==
  IF lo >= hi THEN Incomplete
  ELSE Identifier(Byte(b, lo),
                  IF Byte(b, lo) % 32 = 31 THEN HighTag(b, lo, hi, 1, 0)
                  ELSE Ok(lo + 1, Byte(b, lo) % 32))

RECURSIVE BytesToInt(_, _, _)
\* big-endian value of buf[lo..hi)
BytesToInt(b, lo, hi) ==
  IF lo >= hi THEN 0 ELSE BytesToInt(b, lo, hi - 1) * 256 + Byte(b, hi - 1)

\* BerObjectHeader
Header(id, len) ==
  [class |-> id.class, structured |-> id.structured, tag |-> id.tag, len |-> len]

\* The length octets at p - 1, first octet l0, of the element with identifier
\* id.  len = -1 is BerSize::Indefinite.
Length(b, hi, id, p, l0) ==
  IF l0 < 128 THEN Ok(p, Header(id, l0))
  ELSE IF l0 = 128
  THEN (IF id.structured = 0 THEN Error("Der(ConstructExpected)")
        ELSE Ok(p, Header(id, -1)))
  ELSE IF l0 = 255 THEN Error("Der(InvalidTag)")
  ELSE IF hi - p < l0 - 128 THEN Incomplete
  ELSE IF l0 - 128 > 8 THEN Error("Der(InvalidTag)")
  ELSE Ok(p + l0 - 128, Header(id, BytesToInt(b, p, p + l0 - 128)))

\* der_parser::ber::ber_read_element_header
ber_read_element_header(b, lo, hi) ==
  AndThen(parse_identifier(b, lo, hi),
          LAMBDA id : IF id.pos >= hi THEN Incomplete
                      ELSE Length(b, hi, id.val, id.pos + 1, Byte(b, id.pos)))

\* der_parser::der::der_read_element_header: the header as BER reads it, with
\* the constraints of DER on the length octets: no indefinite length, and no
\* long form for a length below 127
der_read_element_header(b, lo, hi) ==
  AndThen(parse_identifier(b, lo, hi),
          LAMBDA id : IF id.pos >= hi THEN Incomplete
                      ELSE IF Byte(b, id.pos) = 128 THEN Error("Der(DerConstraintFailed)")
                      ELSE AndThen(Length(b, hi, id.val, id.pos + 1, Byte(b, id.pos)),
                                   LAMBDA h : IF Byte(b, id.pos) > 128 /\ h.val.len < 127
                                              THEN Error("Der(DerConstraintFailed)")
                                              ELSE h))

\* One whole element: header, then take(len) of content.
\* val = [hdr, lo, hi]: the header and the content span.  An indefinite length
\* is outside the modelled domain (the inputs are definite-length encodings).
read_tlv(b, lo, hi) ==
  AndThen(ber_read_element_header(b, lo, hi),
          LAMBDA h : IF h.val.len < 0 THEN Error("Der(IndefiniteLength)")
                     ELSE IF hi - h.pos < h.val.len THEN Incomplete
                     ELSE Ok(h.pos + h.val.len,
                             [hdr |-> h.val, lo |-> h.pos, hi |-> h.pos + h.val.len]))

\* parse_ber_with_tag for a primitive type: the tag number must match and the
\* encoding must be primitive; val = the content span
read_primitive(b, lo, hi, tag) ==
  AndThen(ber_read_element_header(b, lo, hi),
          LAMBDA h : IF h.val.tag # tag THEN Error("Der(InvalidTag)")
                     ELSE IF h.val.structured = 1 THEN Error("Der(ConstructUnexpected)")
                     ELSE IF hi - h.pos < h.val.len THEN Incomplete
                     ELSE Ok(h.pos + h.val.len, Span(h.pos, h.pos + h.val.len)))

RECURSIVE SkipZeros(_, _, _)
\* the offset of the first non-zero byte of buf[lo..hi), or hi
SkipZeros(b, lo, hi) ==
  IF lo < hi /\ Byte(b, lo) = 0 THEN SkipZeros(b, lo + 1, hi) ELSE lo

\* der_parser::ber::parse_ber_u32: an INTEGER (read unsigned, at most 8 bytes)
\* whose value fits 32 bits (4 bytes after the leading zeros)
parse_ber_u32(b, lo, hi) ==
  AndThen(read_primitive(b, lo, hi, BerTag.Integer),
          LAMBDA r : IF r.val.hi - r.val.lo > 8 THEN Error("Der(IntegerTooLarge)")
                     ELSE IF r.val.hi - SkipZeros(b, r.val.lo, r.val.hi) > 4
                     THEN Error("Der(IntegerTooLarge)")
                     ELSE Ok(r.pos, BytesToInt(b, SkipZeros(b, r.val.lo, r.val.hi), r.val.hi)))

\* der_parser::der::parse_der_oid followed by as_oid_val: val = the OID's bytes
parse_der_oid(b, lo, hi) ==
  AndThen(read_primitive(b, lo, hi, BerTag.Oid),
          LAMBDA r : IF r.val.hi = r.val.lo THEN Error("Der(InvalidLength)")
                     ELSE Ok(r.pos, Bytes(b, r.val.lo, r.val.hi)))

\* der_parser::der::parse_der_octetstring followed by as_slice: val = content span
parse_der_octetstring(b, lo, hi) == read_primitive(b, lo, hi, BerTag.OctetString)

\* der_parser::der::parse_der_bitstring: the first content byte counts the
\* unused bits (at most 7); val = [unused, data span]
parse_der_bitstring(b, lo, hi) ==
  AndThen(read_primitive(b, lo, hi, BerTag.BitString),
          LAMBDA r : IF r.val.hi = r.val.lo THEN Error("Der(InvalidLength)")
                     ELSE IF Byte(b, r.val.lo) > 7 THEN Error("Der(DerConstraintFailed)")
                     ELSE Ok(r.pos, [unused |-> Byte(b, r.val.lo),
                                     data |-> Span(r.val.lo + 1, r.val.hi)]))

\* der_parser::der::parse_der_bool: one content byte, 0x00 or 0xff
parse_der_bool(b, lo, hi) ==
  AndThen(read_primitive(b, lo, hi, BerTag.Boolean),
          LAMBDA r : IF r.val.hi - r.val.lo # 1 THEN Error("Der(InvalidLength)")
                     ELSE IF Byte(b, r.val.lo) \notin {0, 255}
                     THEN Error("Der(DerConstraintFailed)")
                     ELSE Ok(r.pos, Byte(b, r.val.lo) = 255))

\* der_parser::der::parse_der: any one element; val = [tag, structured, content span]
parse_der(b, lo, hi) ==
  AndThen(read_tlv(b, lo, hi),
          LAMBDA r : Ok(r.pos, [tag |-> r.val.hdr.tag, structured |-> r.val.hdr.structured,
                                content |-> Span(r.val.lo, r.val.hi)]))

\* The header and content of parse_ber_sequence_defined_g / parse_ber_set_defined_g:
\* read the header, take(len) the content, then require the tag.  The closure of
\* the caller runs over the content span; the remainder starts after it.
container(b, lo, hi, tag) ==
  AndThen(read_tlv(b, lo, hi),
          LAMBDA r : IF r.val.hdr.tag # tag THEN Error("Der(InvalidTag)") ELSE r)

(***************************************************************************)
(* X509Version                                                             *)
(***************************************************************************)
V1 == 0

\* X509Version::from_der: [0] EXPLICIT Version DEFAULT v1.  The header is read;
\* on tag number 0 an INTEGER is parsed from the bytes after that header (the
\* header's own length is not used), otherwise the input is returned as it was.
X509Version_from_der(b, lo, hi) ==
  AndThen(or_err(ber_read_element_header(b, lo, hi), "InvalidVersion"),
          LAMBDA h : IF h.val.tag = 0
                     THEN or_err(parse_ber_u32(b, h.pos, hi), "InvalidVersion")
                     ELSE Ok(lo, V1))

\* X509Version::from_der_required: as from_der, but the default arm returns
\* &rem[1..], which panics when rem is empty
X509Version_from_der_required(b, lo, hi) ==
  AndThen(or_err(ber_read_element_header(b, lo, hi), "InvalidVersion"),
          LAMBDA h : IF h.val.tag = 0
                     THEN or_err(parse_ber_u32(b, h.pos, hi), "InvalidVersion")
                     ELSE IF h.pos + 1 > hi THEN Panic
                     ELSE Ok(h.pos + 1, V1))

(***************************************************************************)
(* Extension dispatch (crate::extensions): spec section 4.4                *)
(***************************************************************************)
OID_X509_EXT_BASIC_CONSTRAINTS == <<85, 29, 19>>
OID_X509_EXT_SUBJECT_KEY_IDENTIFIER == <<85, 29, 14>>
OID_X509_EXT_KEY_USAGE == <<85, 29, 15>>
OID_X509_EXT_SUBJECT_ALT_NAME == <<85, 29, 17>>
OID_X509_EXT_CRL_NUMBER == <<85, 29, 20>>
OID_X509_EXT_REASON_CODE == <<85, 29, 21>>
OID_X509_EXT_INVALIDITY_DATE == <<85, 29, 24>>
OID_X509_EXT_NAME_CONSTRAINTS == <<85, 29, 30>>
OID_X509_EXT_POLICY_MAPPINGS == <<85, 29, 33>>
OID_X509_EXT_POLICY_CONSTRAINTS == <<85, 29, 36>>
OID_X509_EXT_EXTENDED_KEY_USAGE == <<85, 29, 37>>
OID_X509_EXT_INHIBITANT_ANY_POLICY == <<85, 29, 54>>
Unsupported == [variant |-> "UnsupportedExtension"]

\* BasicConstraints ::= SEQUENCE { cA BOOLEAN DEFAULT FALSE, pathLen INTEGER OPTIONAL }
parse_basicconstraints(b, lo, hi) ==
  AndThen(container(b, lo, hi, BerTag.Sequence), LAMBDA c :
  AndThen(opt(parse_der_bool(b, c.val.lo, c.val.hi), c.val.lo), LAMBDA ca :
  AndThen(opt(parse_ber_u32(b, ca.pos, c.val.hi), ca.pos), LAMBDA pl :
    IF pl.pos # c.val.hi THEN Error("Der(InvalidLength)")
    ELSE Ok(c.pos, [variant |-> "BasicConstraints",
                    ca |-> UnwrapOr(ca.val, FALSE),
                    path_len_constraint |-> pl.val]))))

\* KeyUsage ::= BIT STRING
parse_keyusage(b, lo, hi) ==
  AndThen(parse_der_bitstring(b, lo, hi),
          LAMBDA r : Ok(r.pos, [variant |-> "KeyUsage",
                                flags |-> BytesToInt(b, r.val.data.lo, r.val.data.hi)]))

\* The decoder of an extension type whose body is outside the model (spec
\* section 1): the value is one whole element with the tag of the type (a
\* SEQUENCE; an INTEGER for InhibitAnyPolicy and CRLNumber, an OCTET STRING for
\* SubjectKeyIdentifier, an ENUMERATED for ReasonCode, a GeneralizedTime for
\* InvalidityDate), and the variant holds the content of that element
parse_typed(b, lo, hi, tag, variant) ==
  AndThen(container(b, lo, hi, tag),
          LAMBDA c : Ok(c.pos, [variant |-> variant, content |-> Span(c.val.lo, c.val.hi)]))

\* The mutant of dispatched: a decoder that fails fails the dispatch
dispatched_or_fails(orig, r) == AndThen(r, LAMBDA x : Ok(orig, x.val))

\* the result of the dispatch from the result r of the OID's decoder: that
\* decoder's variant, or Unsupported when it failed; the remainder is orig
dispatched(orig, r) == IF r.ok THEN Ok(orig, r.val) ELSE Ok(orig, Unsupported)

\* extensions::parser::parse_extension(orig_i, value, oid): look the OID up in the
\* registry; a match runs that OID's decoder over the value; no match, or a
\* decoder that fails, gives the Unsupported variant.  The registry holds the
\* twelve extension types that x509.rs names a variant of ParsedExtension for.
parse_extension(b, orig, v, oid) ==
  dispatched(orig,
             IF oid = OID_X509_EXT_BASIC_CONSTRAINTS THEN parse_basicconstraints(b, v.lo, v.hi)
             ELSE IF oid = OID_X509_EXT_KEY_USAGE THEN parse_keyusage(b, v.lo, v.hi)
             ELSE IF oid = OID_X509_EXT_SUBJECT_ALT_NAME
             THEN parse_typed(b, v.lo, v.hi, BerTag.Sequence, "SubjectAlternativeName")
             ELSE IF oid = OID_X509_EXT_NAME_CONSTRAINTS
             THEN parse_typed(b, v.lo, v.hi, BerTag.Sequence, "NameConstraints")
             ELSE IF oid = OID_X509_EXT_POLICY_MAPPINGS
             THEN parse_typed(b, v.lo, v.hi, BerTag.Sequence, "PolicyMappings")
             ELSE IF oid = OID_X509_EXT_POLICY_CONSTRAINTS
             THEN parse_typed(b, v.lo, v.hi, BerTag.Sequence, "PolicyConstraints")
             ELSE IF oid = OID_X509_EXT_EXTENDED_KEY_USAGE
             THEN parse_typed(b, v.lo, v.hi, BerTag.Sequence, "ExtendedKeyUsage")
             ELSE IF oid = OID_X509_EXT_INHIBITANT_ANY_POLICY
             THEN parse_typed(b, v.lo, v.hi, BerTag.Integer, "InhibitAnyPolicy")
             ELSE IF oid = OID_X509_EXT_SUBJECT_KEY_IDENTIFIER
             THEN parse_typed(b, v.lo, v.hi, BerTag.OctetString, "SubjectKeyIdentifier")
             ELSE IF oid = OID_X509_EXT_CRL_NUMBER
             THEN parse_typed(b, v.lo, v.hi, BerTag.Integer, "CRLNumber")
             ELSE IF oid = OID_X509_EXT_REASON_CODE
             THEN parse_typed(b, v.lo, v.hi, BerTag.Enumerated, "ReasonCode")
             ELSE IF oid = OID_X509_EXT_INVALIDITY_DATE
             THEN parse_typed(b, v.lo, v.hi, BerTag.GeneralizedTime, "InvalidityDate")
             ELSE Error("unknown"))

\* x509_parser::der_read_critical: BOOLEAN DEFAULT FALSE
der_read_critical(b, lo, hi) ==
  AndThen(opt(parse_der_bool(b, lo, hi), lo),
          LAMBDA r : Ok(r.pos, UnwrapOr(r.val, FALSE)))

(***************************************************************************)
(* X509Extension                                                           *)
(***************************************************************************)
\* The mutant of ExtensionFields: value keeps the whole OCTET STRING element
ExtensionFields_whole_element(b, lo, hi) ==
  AndThen(parse_der_oid(b, lo, hi), LAMBDA o :
  AndThen(der_read_critical(b, o.pos, hi), LAMBDA c :
  AndThen(parse_der_octetstring(b, c.pos, hi), LAMBDA v :
  AndThen(parse_extension(b, v.pos, v.val, o.val), LAMBDA p :
    Ok(p.pos, [oid |-> o.val, critical |-> c.val, value |-> Span(c.pos, v.pos),
               parsed_extension |-> p.val])))))

\* The closure of X509Extension::from_der: extnID, critical, extnValue, then the
\* dispatch over (value, oid); the critical flag is not given to the dispatch
ExtensionFields(b, lo, hi) ==
  AndThen(parse_der_oid(b, lo, hi), LAMBDA o :
  AndThen(der_read_critical(b, o.pos, hi), LAMBDA c :
  AndThen(parse_der_octetstring(b, c.pos, hi), LAMBDA v :
  AndThen(parse_extension(b, v.pos, v.val, o.val), LAMBDA p :
    Ok(p.pos, [oid |-> o.val, critical |-> c.val, value |-> v.val,
               parsed_extension |-> p.val])))))

\* The mutant of X509Extension_from_der: failures are returned as they are
X509Extension_from_der_unmapped(b, lo, hi) ==
  AndThen(container(b, lo, hi, BerTag.Sequence), LAMBDA c :
  AndThen(ExtensionFields(b, c.val.lo, c.val.hi), LAMBDA f : Ok(c.pos, f.val)))

\* X509Extension::from_der: every failure is mapped to InvalidExtensions
X509Extension_from_der(b, lo, hi) ==
  or_err(AndThen(container(b, lo, hi, BerTag.Sequence), LAMBDA c :
         AndThen(ExtensionFields(b, c.val.lo, c.val.hi), LAMBDA f : Ok(c.pos, f.val))),
         "InvalidExtensions")

\* X509Extension::parsed_extension
parsed_extension(ext) == ext.parsed_extension

(***************************************************************************)
(* Name                                                                    *)
(***************************************************************************)
\* x509_parser::parse_attribute_value: the ANY value of an attribute
parse_attribute_value(b, lo, hi) == parse_der(b, lo, hi)

\* AttributeTypeAndValue::from_der
AttributeTypeAndValue_from_der(b, lo, hi) ==
  AndThen(container(b, lo, hi, BerTag.Sequence), LAMBDA c :
  AndThen(or_err(parse_der_oid(b, c.val.lo, c.val.hi), "InvalidX509Name"), LAMBDA t :
  AndThen(or_err(parse_attribute_value(b, t.pos, c.val.hi), "InvalidX509Name"), LAMBDA v :
    Ok(c.pos, [attr_type |-> t.val, attr_value |-> v.val]))))

RECURSIVE many_attributes(_, _, _, _)
\* the loop of many1(complete(AttributeTypeAndValue::from_der)) after the first
\* element
many_attributes(b, lo, hi, acc) ==
  many_round(complete(AttributeTypeAndValue_from_der(b, lo, hi)), lo, acc, "NomError(Many1)",
             LAMBDA r : many_attributes(b, r.pos, hi, Append(acc, r.val)))

\* many1(complete(AttributeTypeAndValue::from_der)): the first element is required
many1_attributes(b, lo, hi) ==
  many1_first(complete(AttributeTypeAndValue_from_der(b, lo, hi)),
              LAMBDA r : many_attributes(b, r.pos, hi, <<r.val>>))

\* RelativeDistinguishedName::from_der: a SET of one or more attributes
RelativeDistinguishedName_from_der(b, lo, hi) ==
  AndThen(container(b, lo, hi, BerTag.Set), LAMBDA c :
  AndThen(many1_attributes(b, c.val.lo, c.val.hi), LAMBDA m : Ok(c.pos, [set |-> m.val])))

RECURSIVE many0_rdn(_, _, _, _)
\* many0(complete(RelativeDistinguishedName::from_der))
many0_rdn(b, lo, hi, acc) ==
  many_round(complete(RelativeDistinguishedName_from_der(b, lo, hi)), lo, acc, "NomError(Many0)",
             LAMBDA r : many0_rdn(b, r.pos, hi, Append(acc, r.val)))

\* X509Name::from_der: raw is start_i[..start_i.offset(i)], i being what many0
\* left of the content
X509Name_from_der(b, lo, hi) ==
  AndThen(container(b, lo, hi, BerTag.Sequence), LAMBDA c :
  AndThen(many0_rdn(b, c.val.lo, c.val.hi, <<>>), LAMBDA m :
    Ok(c.pos, [rdn_seq |-> m.val, raw |-> Span(lo, m.pos)])))

\* X509Name::as_raw
as_raw(name) == name.raw

\* oid_registry: stateOrProvinceName, streetAddress
OID_X509_STATE_OR_PROVINCE_NAME == <<85, 4, 8>>
OID_X509_STREET_ADDRESS == <<85, 4, 9>>

RECURSIVE flatten_first(_, _)
\* The mutant of flatten: the first attribute of each RDN only
flatten_first(rdn_seq, k) ==
  IF k > Len(rdn_seq) THEN <<>>
  ELSE <<rdn_seq[k].set[1]>> \o flatten_first(rdn_seq, k + 1)

RECURSIVE flatten(_, _)
\* X509Name::iter_attributes, rdn_seq.iter().map(|rdn| rdn.set.iter()).flatten(),
\* from the RDN at k on: the attributes of each RDN in order, RDN after RDN
flatten(rdn_seq, k) ==
  IF k > Len(rdn_seq) THEN <<>>
  ELSE rdn_seq[k].set \o flatten(rdn_seq, k + 1)

\* X509Name::iter_by_oid: iter_attributes().filter(|obj| obj.attr_type == oid)
iter_by_oid(name, oid) == SelectSeq(flatten(name.rdn_seq, 1), LAMBDA obj : obj.attr_type = oid)

\* X509Name::iter_state_or_province
iter_state_or_province(name) == iter_by_oid(name, OID_X509_STREET_ADDRESS)

(***************************************************************************)
(* AlgorithmIdentifier, SubjectPublicKeyInfo                               *)
(***************************************************************************)
\* AlgorithmIdentifier::from_der
AlgorithmIdentifier_from_der(b, lo, hi) ==
  AndThen(container(b, lo, hi, BerTag.Sequence), LAMBDA c :
  AndThen(or_err(parse_der_oid(b, c.val.lo, c.val.hi), "InvalidAlgorithmIdentifier"), LAMBDA a :
  AndThen(or_err(opt(complete(parse_der(b, a.pos, c.val.hi)), a.pos),
                 "InvalidAlgorithmIdentifier"), LAMBDA p :
    Ok(c.pos, [algorithm |-> a.val, parameters |-> p.val]))))

\* SubjectPublicKeyInfo::from_der
SubjectPublicKeyInfo_from_der(b, lo, hi) ==
  AndThen(container(b, lo, hi, BerTag.Sequence), LAMBDA c :
  AndThen(AlgorithmIdentifier_from_der(b, c.val.lo, c.val.hi), LAMBDA a :
  AndThen(or_err(parse_der_bitstring(b, a.pos, c.val.hi), "InvalidSPKI"), LAMBDA k :
    Ok(c.pos, [algorithm |-> a.val, subject_public_key |-> k.val]))))

(***************************************************************************)
(* Time (crate::time) and Validity                                         *)
(***************************************************************************)
\* The digits "0".."9" are 48..57 and "Z" is 90; a UTCTime is YYMMDDHHMMSSZ
\* (12 digits), a GeneralizedTime YYYYMMDDHHMMSSZ (14 digits); a UTCTime year
\* below 50 is 20YY, otherwise 19YY; times count from 2000-01-01.

RECURSIVE DecimalValue(_, _, _)
\* the number written in decimal digits in buf[lo..hi)
DecimalValue(b, lo, hi) ==
  IF lo >= hi THEN 0 ELSE DecimalValue(b, lo, hi - 1) * 10 + (Byte(b, hi - 1) - 48)

AllDigits(b, lo, hi) == \A p \in lo .. hi - 1 : Byte(b, p) \in 48 .. 57

IsLeap(y) == (y % 4 = 0 /\ y % 100 # 0) \/ y % 400 = 0
DaysInMonth(y, m) ==
  IF m = 2 THEN (IF IsLeap(y) THEN 29 ELSE 28)
  ELSE IF m \in {4, 6, 9, 11} THEN 30 ELSE 31
\* days from 0001-01-01 to y-01-01
DaysBeforeYear(y) == 365 * (y - 1) + ((y - 1) \div 4) - ((y - 1) \div 100) + ((y - 1) \div 400)
RECURSIVE DaysBeforeMonth(_, _)
DaysBeforeMonth(y, m) == IF m <= 1 THEN 0 ELSE DaysBeforeMonth(y, m - 1) + DaysInMonth(y, m - 1)

\* the timestamp of a calendar time, in seconds from 2000-01-01T00:00:00Z
Timestamp(y, mo, d, h, mi, s) ==
  (DaysBeforeYear(y) - DaysBeforeYear(2000) + DaysBeforeMonth(y, mo) + d - 1)
     * 86400 + h * 3600 + mi * 60 + s

\* the time of calendar fields, when they name a moment
CalendarTime(pos, y, mo, d, h, mi, s) ==
  IF /\ y >= 1 /\ mo \in 1 .. 12 /\ d >= 1 /\ d <= DaysInMonth(y, mo)
     /\ h <= 23 /\ mi <= 59 /\ s <= 59
  THEN Ok(pos, Timestamp(y, mo, d, h, mi, s))
  ELSE Error("InvalidDate")

\* the year of a UTCTime or GeneralizedTime whose year digits read yy
YearOf(t, yy) ==
  IF t = BerTag.GeneralizedTime THEN yy
  ELSE IF yy < 50 THEN 2000 + yy ELSE 1900 + yy

\* the time in the content buf[lo..hi) of an element with tag number t, whose
\* month starts at p
TimeOfContent(b, pos, t, lo, hi, p) ==
  IF /\ t \in {BerTag.UtcTime, BerTag.GeneralizedTime}
     /\ hi - lo = (IF t = BerTag.UtcTime THEN 12 ELSE 14) + 1
     /\ AllDigits(b, lo, hi - 1)
     /\ Byte(b, hi - 1) = 90
  THEN CalendarTime(pos, YearOf(t, DecimalValue(b, lo, p)),
                    DecimalValue(b, p, p + 2), DecimalValue(b, p + 2, p + 4),
                    DecimalValue(b, p + 4, p + 6), DecimalValue(b, p + 6, p + 8),
                    DecimalValue(b, p + 8, p + 10))
  ELSE Error("InvalidDate")

\* ASN1Time::from_der: a UTCTime (YYMMDDHHMMSSZ) or a GeneralizedTime
\* (YYYYMMDDHHMMSSZ) of any class and form, converted to a timestamp; every
\* failure is InvalidDate
ASN1Time_from_der(b, lo, hi) ==
  AndThen(or_err(read_tlv(b, lo, hi), "InvalidDate"),
          LAMBDA r : TimeOfContent(b, r.pos, r.val.hdr.tag, r.val.lo, r.val.hi,
                                   r.val.lo + (IF r.val.hdr.tag = BerTag.UtcTime THEN 2 ELSE 4)))

\* ASN1Time::from_der_opt: an optional time
ASN1Time_from_der_opt(b, lo, hi) == or_err(opt(ASN1Time_from_der(b, lo, hi), lo), "InvalidDate")

\* The mutant of Validity_from_der: what not_after left of the content is the
\* remainder
Validity_from_der_inner_rest(b, lo, hi) ==
  AndThen(container(b, lo, hi, BerTag.Sequence), LAMBDA c :
  AndThen(ASN1Time_from_der(b, c.val.lo, c.val.hi), LAMBDA nb :
  AndThen(ASN1Time_from_der(b, nb.pos, c.val.hi), LAMBDA na :
    Ok(na.pos, [not_before |-> nb.val, not_after |-> na.val]))))

\* Validity::from_der
Validity_from_der(b, lo, hi) ==
  AndThen(container(b, lo, hi, BerTag.Sequence), LAMBDA c :
  AndThen(ASN1Time_from_der(b, c.val.lo, c.val.hi), LAMBDA nb :
  AndThen(ASN1Time_from_der(b, nb.pos, c.val.hi), LAMBDA na :
    Ok(c.pos, [not_before |-> nb.val, not_after |-> na.val]))))

\* The mutant of is_valid_at: the interval is closed at not_after
is_valid_at_closed(v, time) == time >= v.not_before /\ time <= v.not_after

\* Validity::is_valid_at
is_valid_at(v, time) == time >= v.not_before /\ time < v.not_after

\* ASN1Time - ASN1Time: the duration, or None when it would be negative
time_sub(a, c) == IF a >= c THEN Some(a - c) ELSE None

\* The mutant of time_to_expiration: no check that the validity has begun
time_to_expiration_unchecked(v, clock) ==
  IF clock >= v.not_after THEN None ELSE time_sub(v.not_after, clock)

\* Validity::time_to_expiration, with the clock ASN1Time::now() reads
time_to_expiration(v, clock) ==
  IF ~is_valid_at(v, clock) THEN None ELSE time_sub(v.not_after, clock)

\* Validity::is_valid
is_valid(v, clock) == is_valid_at(v, clock)

(***************************************************************************)
(* Field decoders of crate::x509_parser: spec sections 4.6 to 4.8          *)
(***************************************************************************)
\* x509_parser::parse_serial: an INTEGER read unsigned; val = the raw content
\* span and the value as its big-endian bytes without leading zeros
parse_serial(b, lo, hi) ==
  AndThen(or_err(read_primitive(b, lo, hi, BerTag.Integer), "InvalidSerial"),
          LAMBDA r : Ok(r.pos, [raw |-> r.val,
                                value |-> Bytes(b, SkipZeros(b, r.val.lo, r.val.hi), r.val.hi)]))

\* x509_parser::parse_signature_value: a BIT STRING
parse_signature_value(b, lo, hi) ==
  or_err(parse_der_bitstring(b, lo, hi), "InvalidSignatureValue")

RECURSIVE many0_extensions(_, _, _, _)
\* many0(complete(X509Extension::from_der))
many0_extensions(b, lo, hi, acc) ==
  many_round(complete(X509Extension_from_der(b, lo, hi)), lo, acc, "NomError(Many0)",
             LAMBDA r : many0_extensions(b, r.pos, hi, Append(acc, r.val)))

\* x509_parser::parse_extension_sequence: SEQUENCE OF Extension, the whole
\* content being extensions
parse_extension_sequence(b, lo, hi) ==
  AndThen(container(b, lo, hi, BerTag.Sequence), LAMBDA c :
  AndThen(many0_extensions(b, c.val.lo, c.val.hi, <<>>), LAMBDA m :
    IF m.pos # c.val.hi THEN Error("NomError(Eof)") ELSE Ok(c.pos, m.val)))

\* x509_parser::extensions_sequence_to_map: the OID-keyed map of a list; on a
\* repeated OID the later entry overwrites the earlier (spec section 9)
extensions_sequence_to_map(list) ==
  [o \in {list[i].oid : i \in DOMAIN list} |->
     list[CHOOSE i \in DOMAIN list :
            /\ list[i].oid = o
            /\ \A j \in DOMAIN list : list[j].oid = o => j <= i]]

EmptyMap == extensions_sequence_to_map(<<>>)

\* x509_parser::parse_extensions(i, explicit_tag), spec sections 4.6 and 7: an
\* optional EXPLICIT-tagged SEQUENCE OF Extension.  The field is absent, an
\* empty map that consumes nothing and never an error, when nothing is left or
\* when the element has another tag; an element with the tag is unwrapped and
\* its SEQUENCE OF Extension becomes the map, what follows the element being
\* the remainder
parse_extensions(b, lo, hi, tag) ==
  IF lo >= hi THEN Ok(lo, EmptyMap)
  ELSE AndThen(or_err(ber_read_element_header(b, lo, hi), "InvalidExtensions"), LAMBDA h :
       IF h.val.tag # tag THEN Ok(lo, EmptyMap)
       ELSE AndThen(read_tlv(b, lo, hi), LAMBDA c :
            AndThen(parse_extension_sequence(b, c.val.lo, c.val.hi), LAMBDA q :
              Ok(c.pos, extensions_sequence_to_map(q.val)))))

(***************************************************************************)
(* UniqueIdentifier                                                        *)
(***************************************************************************)
\* The mutant of UniqueIdentifier_of: the tag number of the element is not tested
UniqueIdentifier_of_any_tag(b, lo, hi, tag, h) ==
  IF h.ok /\ h.val.structured = 0 /\ h.val.len >= 1 /\ hi - h.pos >= h.val.len
  THEN Ok(h.pos + h.val.len,
          Some([unused |-> Byte(b, h.pos), data |-> Span(h.pos + 1, h.pos + h.val.len)]))
  ELSE Ok(lo, None)

\* the unique identifier in the element at lo whose header read as h
UniqueIdentifier_of(b, lo, hi, tag, h) ==
  IF h.ok /\ h.val.tag = tag /\ h.val.structured = 0 /\ h.val.len >= 1
          /\ hi - h.pos >= h.val.len
  THEN Ok(h.pos + h.val.len,
          Some([unused |-> Byte(b, h.pos), data |-> Span(h.pos + 1, h.pos + h.val.len)]))
  ELSE Ok(lo, None)

\* UniqueIdentifier::parse: parse_ber_optional(parse_ber_tagged_implicit(tag,
\* BIT STRING content)): an element with that tag number holding a BIT STRING
\* is Some; anything else is None and consumes nothing
UniqueIdentifier_parse(b, lo, hi, tag) ==
  UniqueIdentifier_of(b, lo, hi, tag, ber_read_element_header(b, lo, hi))

\* UniqueIdentifier::from_der_issuer: [1] IMPLICIT
from_der_issuer(b, lo, hi) == or_err(UniqueIdentifier_parse(b, lo, hi, 1), "InvalidIssuerUID")

\* UniqueIdentifier::from_der_subject: [2] IMPLICIT
from_der_subject(b, lo, hi) == or_err(UniqueIdentifier_parse(b, lo, hi, 2), "InvalidSubjectUID")

(***************************************************************************)
(* RevokedCertificate                                                      *)
(***************************************************************************)
\* RevokedCertificate::from_der: serial, revocation date, then
\* opt(complete(extension sequence as a map)), whose absence is an empty map
RevokedCertificate_from_der(b, lo, hi) ==
  AndThen(container(b, lo, hi, BerTag.Sequence), LAMBDA c :
  AndThen(parse_serial(b, c.val.lo, c.val.hi), LAMBDA s :
  AndThen(ASN1Time_from_der(b, s.pos, c.val.hi), LAMBDA d :
  AndThen(opt(complete(parse_extension_sequence(b, d.pos, c.val.hi)), d.pos), LAMBDA e :
    Ok(c.pos, [user_certificate |-> s.val.value,
               revocation_date |-> d.val,
               extensions |-> IF e.val.some THEN extensions_sequence_to_map(e.val.v)
                              ELSE EmptyMap,
               raw_serial |-> s.val.raw])))))

RECURSIVE many0_revoked(_, _, _, _)
\* many0(complete(RevokedCertificate::from_der))
many0_revoked(b, lo, hi, acc) ==
  many_round(complete(RevokedCertificate_from_der(b, lo, hi)), lo, acc, "NomError(Many0)",
             LAMBDA r : many0_revoked(b, r.pos, hi, Append(acc, r.val)))

\* x509_parser::parse_revoked_certificates: SEQUENCE OF RevokedCertificate, the
\* whole content being entries
parse_revoked_certificates(b, lo, hi) ==
  AndThen(container(b, lo, hi, BerTag.Sequence), LAMBDA c :
  AndThen(many0_revoked(b, c.val.lo, c.val.hi, <<>>), LAMBDA m :
    IF m.pos # c.val.hi THEN Error("NomError(Eof)") ELSE Ok(c.pos, m.val)))

(***************************************************************************)
(* X509CriAttribute                                                        *)
(***************************************************************************)
OID_PKCS9_EXTENSION_REQUEST == <<42, 134, 72, 134, 247, 13, 1, 9, 14>>

\* cri_attributes::parser::parse_attribute(i, oid): an extensionRequest holds a
\* SEQUENCE OF Extension; any other attribute is Unsupported and consumes nothing
parse_attribute(b, lo, hi, oid) ==
  IF oid = OID_PKCS9_EXTENSION_REQUEST
  THEN AndThen(parse_extension_sequence(b, lo, hi),
               LAMBDA q : Ok(q.pos, [variant |-> "ExtensionRequest",
                                     extensions |-> extensions_sequence_to_map(q.val)]))
  ELSE Ok(lo, [variant |-> "UnsupportedAttribute"])

\* The closure of X509CriAttribute::from_der: the OID, the header of a SET, then
\* the attribute dispatch over what follows that header; value is
\* value_start[..value_start.len() - i.len()]
CriAttributeFields(b, lo, hi) ==
  AndThen(parse_der_oid(b, lo, hi), LAMBDA o :
  AndThen(der_read_element_header(b, o.pos, hi), LAMBDA h :
    IF h.val.tag # BerTag.Set THEN Error("Der(BerTypeError)")
    ELSE AndThen(parse_attribute(b, h.pos, hi, o.val), LAMBDA p :
         Ok(p.pos, [oid |-> o.val, value |-> Span(o.pos, p.pos),
                    parsed_attribute |-> p.val]))))

\* X509CriAttribute::from_der: every failure is mapped to InvalidAttributes
X509CriAttribute_from_der(b, lo, hi) ==
  or_err(AndThen(container(b, lo, hi, BerTag.Sequence), LAMBDA c :
         AndThen(CriAttributeFields(b, c.val.lo, c.val.hi), LAMBDA f : Ok(c.pos, f.val))),
         "InvalidAttributes")

RECURSIVE many0_attributes(_, _, _, _)
\* the attributes of a request, one after the other, to the end of [lo, hi)
many0_attributes(b, lo, hi, acc) ==
  IF lo >= hi THEN Ok(lo, acc)
  ELSE AndThen(X509CriAttribute_from_der(b, lo, hi),
               LAMBDA r : many0_attributes(b, r.pos, hi, Append(acc, r.val)))

\* x509_parser::parse_cri_attributes, spec sections 3, 4.6 and 7: the required
\* field attributes [0], one element whose content is the attributes, which
\* become the OID-keyed map; another tag or an element that is not whole is
\* InvalidAttributes; what follows the element is the remainder
parse_cri_attributes(b, lo, hi) ==
  AndThen(or_err(read_tlv(b, lo, hi), "InvalidAttributes"), LAMBDA c :
    IF c.val.hdr.tag # 0 THEN Error("InvalidAttributes")
    ELSE AndThen(many0_attributes(b, c.val.lo, c.val.hi, <<>>),
                 LAMBDA m : Ok(c.pos, extensions_sequence_to_map(m.val))))

(***************************************************************************)
(* TBS assemblers                                                          *)
(***************************************************************************)
\* The field decoders an assembler's closure calls, by field name
FieldDecoder(f, b, lo, hi) ==
  CASE f = "version" -> X509Version_from_der(b, lo, hi)
    [] f = "version_required" -> X509Version_from_der_required(b, lo, hi)
    [] f = "version_opt" -> or_err(opt(parse_ber_u32(b, lo, hi), lo), "InvalidVersion")
    [] f = "serial" -> parse_serial(b, lo, hi)
    [] f = "signature" -> AlgorithmIdentifier_from_der(b, lo, hi)
    [] f = "issuer" -> X509Name_from_der(b, lo, hi)
    [] f = "validity" -> Validity_from_der(b, lo, hi)
    [] f = "subject" -> X509Name_from_der(b, lo, hi)
    [] f = "subject_pki" -> SubjectPublicKeyInfo_from_der(b, lo, hi)
    [] f = "issuer_uid" -> from_der_issuer(b, lo, hi)
    [] f = "subject_uid" -> from_der_subject(b, lo, hi)
    [] f = "extensions" -> parse_extensions(b, lo, hi, 3)
    [] f = "this_update" -> ASN1Time_from_der(b, lo, hi)
    [] f = "next_update" -> ASN1Time_from_der_opt(b, lo, hi)
    [] f = "revoked_certificates" -> opt(complete(parse_revoked_certificates(b, lo, hi)), lo)
    [] f = "crl_extensions" -> parse_extensions(b, lo, hi, 0)
    [] f = "attributes" -> parse_cri_attributes(b, lo, hi)

\* One step `let (i, x) = decode(i)?;` of a closure, acc being the results so
\* far: a failure ends the chain as its last result, a success goes on with K
FieldStep(r, acc, K(_)) == IF r.ok THEN K(r) ELSE Append(acc, r)

\* a field that failed, read as an absent one that consumed nothing
Skipped(r, lo) ==
  IF r.ok THEN r ELSE Ok(lo, [some |-> FALSE, value |-> <<>>, raw |-> Span(lo, lo)])

RECURSIVE RunFieldsLenient(_, _, _, _, _, _)
\* The mutant of RunFields: a field that fails is skipped and decoding goes on
RunFieldsLenient(b, lo, hi, names, k, acc) ==
  IF k > Len(names) THEN acc
  ELSE FieldStep(IF k < Len(names)
                 THEN Skipped(FieldDecoder(names[k], b, lo, hi), lo)
                 ELSE FieldDecoder(names[k], b, lo, hi),
                 acc,
                 LAMBDA r : RunFieldsLenient(b, r.pos, hi, names, k + 1, Append(acc, r)))

RECURSIVE RunFields(_, _, _, _, _, _)
\* A closure's chain `let (i, x) = decode(i)?;` over its names in order: each
\* field is decoded where the one before it stopped, and the first failure ends
\* the chain.  The value is the list of the results obtained, a failure last.
RunFields(b, lo, hi, names, k, acc) ==
  IF k > Len(names) THEN acc
  ELSE FieldStep(FieldDecoder(names[k], b, lo, hi), acc,
                 LAMBDA r : RunFields(b, r.pos, hi, names, k + 1, Append(acc, r)))

\* the last result of a chain
Last(t) == t[Len(t)]

TbsCertificateFields ==
  <<"version", "serial", "signature", "issuer", "validity", "subject", "subject_pki",
    "issuer_uid", "subject_uid", "extensions">>

\* the TbsCertificate built from the results t of its fields, raw starting at start
TbsCertificate_of(start, pos, t) ==
  AndThen(Last(t), LAMBDA l :
    Ok(pos, [version |-> t[1].val, serial |-> t[2].val.value,
             signature |-> t[3].val, issuer |-> t[4].val,
             validity |-> t[5].val, subject |-> t[6].val,
             subject_pki |-> t[7].val, issuer_uid |-> t[8].val,
             subject_uid |-> t[9].val, extensions |-> t[10].val,
             raw |-> Span(start, l.pos), raw_serial |-> t[2].val.raw]))

\* TbsCertificate::from_der: raw is start_i[..start_i.offset(i)], i being what
\* the last field left of the content
TbsCertificate_from_der(b, lo, hi) ==
  AndThen(container(b, lo, hi, BerTag.Sequence), LAMBDA c :
    TbsCertificate_of(lo, c.pos,
                      RunFields(b, c.val.lo, c.val.hi, TbsCertificateFields, 1, <<>>)))

\* The mutant of basic_constraints: the critical flag is not the entry's
basic_constraints_never_critical(tbs) ==
  IF OID_X509_EXT_BASIC_CONSTRAINTS \notin DOMAIN tbs.extensions THEN None
  ELSE IF tbs.extensions[OID_X509_EXT_BASIC_CONSTRAINTS].parsed_extension.variant
            = "BasicConstraints"
  THEN Some(<<FALSE, tbs.extensions[OID_X509_EXT_BASIC_CONSTRAINTS].parsed_extension>>)
  ELSE None

\* TbsCertificate::basic_constraints: extensions.get(&OID)? and then a match on
\* the parsed variant
basic_constraints(tbs) ==
  IF OID_X509_EXT_BASIC_CONSTRAINTS \notin DOMAIN tbs.extensions THEN None
  ELSE IF tbs.extensions[OID_X509_EXT_BASIC_CONSTRAINTS].parsed_extension.variant
            = "BasicConstraints"
  THEN Some(<<tbs.extensions[OID_X509_EXT_BASIC_CONSTRAINTS].critical,
              tbs.extensions[OID_X509_EXT_BASIC_CONSTRAINTS].parsed_extension>>)
  ELSE None

\* TbsCertificate::key_usage
key_usage(tbs) ==
  IF OID_X509_EXT_KEY_USAGE \notin DOMAIN tbs.extensions THEN None
  ELSE IF tbs.extensions[OID_X509_EXT_KEY_USAGE].parsed_extension.variant = "KeyUsage"
  THEN Some(<<tbs.extensions[OID_X509_EXT_KEY_USAGE].critical,
              tbs.extensions[OID_X509_EXT_KEY_USAGE].parsed_extension>>)
  ELSE None

\* TbsCertificate::extended_key_usage
extended_key_usage(tbs) ==
  IF OID_X509_EXT_EXTENDED_KEY_USAGE \notin DOMAIN tbs.extensions THEN None
  ELSE IF tbs.extensions[OID_X509_EXT_EXTENDED_KEY_USAGE].parsed_extension.variant = "ExtendedKeyUsage"
  THEN Some(<<tbs.extensions[OID_X509_EXT_EXTENDED_KEY_USAGE].critical,
              tbs.extensions[OID_X509_EXT_EXTENDED_KEY_USAGE].parsed_extension>>)
  ELSE None

\* TbsCertificate::policy_constraints
policy_constraints(tbs) ==
  IF OID_X509_EXT_POLICY_CONSTRAINTS \notin DOMAIN tbs.extensions THEN None
  ELSE IF tbs.extensions[OID_X509_EXT_POLICY_CONSTRAINTS].parsed_extension.variant = "PolicyConstraints"
  THEN Some(<<tbs.extensions[OID_X509_EXT_POLICY_CONSTRAINTS].critical,
              tbs.extensions[OID_X509_EXT_POLICY_CONSTRAINTS].parsed_extension>>)
  ELSE None

\* TbsCertificate::inhibit_anypolicy
inhibit_anypolicy(tbs) ==
  IF OID_X509_EXT_INHIBITANT_ANY_POLICY \notin DOMAIN tbs.extensions THEN None
  ELSE IF tbs.extensions[OID_X509_EXT_INHIBITANT_ANY_POLICY].parsed_extension.variant = "InhibitAnyPolicy"
  THEN Some(<<tbs.extensions[OID_X509_EXT_INHIBITANT_ANY_POLICY].critical,
              tbs.extensions[OID_X509_EXT_INHIBITANT_ANY_POLICY].parsed_extension>>)
  ELSE None

\* TbsCertificate::policy_mappings
policy_mappings(tbs) ==
  IF OID_X509_EXT_POLICY_MAPPINGS \notin DOMAIN tbs.extensions THEN None
  ELSE IF tbs.extensions[OID_X509_EXT_POLICY_MAPPINGS].parsed_extension.variant = "PolicyMappings"
  THEN Some(<<tbs.extensions[OID_X509_EXT_POLICY_MAPPINGS].critical,
              tbs.extensions[OID_X509_EXT_POLICY_MAPPINGS].parsed_extension>>)
  ELSE None

\* TbsCertificate::subject_alternative_name
subject_alternative_name(tbs) ==
  IF OID_X509_EXT_SUBJECT_ALT_NAME \notin DOMAIN tbs.extensions THEN None
  ELSE IF tbs.extensions[OID_X509_EXT_SUBJECT_ALT_NAME].parsed_extension.variant = "SubjectAlternativeName"
  THEN Some(<<tbs.extensions[OID_X509_EXT_SUBJECT_ALT_NAME].critical,
              tbs.extensions[OID_X509_EXT_SUBJECT_ALT_NAME].parsed_extension>>)
  ELSE None

\* TbsCertificate::name_constraints
name_constraints(tbs) ==
  IF OID_X509_EXT_NAME_CONSTRAINTS \notin DOMAIN tbs.extensions THEN None
  ELSE IF tbs.extensions[OID_X509_EXT_NAME_CONSTRAINTS].parsed_extension.variant = "NameConstraints"
  THEN Some(<<tbs.extensions[OID_X509_EXT_NAME_CONSTRAINTS].critical,
              tbs.extensions[OID_X509_EXT_NAME_CONSTRAINTS].parsed_extension>>)
  ELSE None

\* TbsCertificate::is_ca: basic_constraints().map(|(_, bc)| bc.ca).unwrap_or(false)
is_ca(tbs) ==
  IF basic_constraints(tbs).some THEN basic_constraints(tbs).v[2].ca ELSE FALSE

RECURSIVE fold_serial(_, _)
\* raw_serial.iter().fold(String::with_capacity(..), |a, b| a + &format!("{:02x}:", b)),
\* x(n) being the lower-case hexadecimal digit of n
fold_serial(bytes, a) ==
  LET x(n) == IF n < 10 THEN 48 + n ELSE 87 + n
  IN IF bytes = <<>> THEN a
     ELSE fold_serial(Tail(bytes), a \o <<x(Head(bytes) \div 16), x(Head(bytes) % 16), 58>>)

\* The mutant of raw_serial_as_string: the last character is not popped
raw_serial_as_string_unpopped(b, raw_serial) == fold_serial(Bytes(b, raw_serial.lo, raw_serial.hi), <<>>)

\* TbsCertificate::raw_serial_as_string and RevokedCertificate::raw_serial_as_string
\* (the same body): the fold, then s.pop(), which removes the last character
\* of a string that has one
raw_serial_as_string(b, raw_serial) ==
  IF raw_serial.lo = raw_serial.hi THEN fold_serial(<<>>, <<>>)
  ELSE SubSeq(fold_serial(Bytes(b, raw_serial.lo, raw_serial.hi), <<>>), 1,
              3 * (raw_serial.hi - raw_serial.lo) - 1)

TbsCertListFields ==
  <<"version_opt", "signature", "issuer", "this_update", "next_update",
    "revoked_certificates", "crl_extensions">>

\* The mutant of TbsCertList_of: a list of revoked certificates is required
TbsCertList_of_required(start, pos, t) ==
  AndThen(Last(t), LAMBDA l :
    IF ~t[6].val.some THEN Error("NomError(Tag)")
    ELSE Ok(pos, [version |-> t[1].val, signature |-> t[2].val,
                  issuer |-> t[3].val, this_update |-> t[4].val,
                  next_update |-> t[5].val,
                  revoked_certificates |-> t[6].val.v,
                  extensions |-> t[7].val,
                  raw |-> Span(start, l.pos)]))

\* the TbsCertList built from the results t of its fields
TbsCertList_of(start, pos, t) ==
  AndThen(Last(t), LAMBDA l :
    Ok(pos, [version |-> t[1].val, signature |-> t[2].val,
             issuer |-> t[3].val, this_update |-> t[4].val,
             next_update |-> t[5].val,
             revoked_certificates |-> UnwrapOr(t[6].val, <<>>),
             extensions |-> t[7].val,
             raw |-> Span(start, l.pos)]))

\* TbsCertList::from_der
TbsCertList_from_der(b, lo, hi) ==
  AndThen(container(b, lo, hi, BerTag.Sequence), LAMBDA c :
    TbsCertList_of(lo, c.pos, RunFields(b, c.val.lo, c.val.hi, TbsCertListFields, 1, <<>>)))

CertificationRequestInfoFields ==
  <<"version_required", "subject", "subject_pki", "attributes">>

\* the X509CertificationRequestInfo built from the results t of its fields
CertificationRequestInfo_of(start, pos, t) ==
  AndThen(Last(t), LAMBDA l :
    Ok(pos, [version |-> t[1].val, subject |-> t[2].val,
             subject_pki |-> t[3].val, attributes |-> t[4].val,
             raw |-> Span(start, l.pos)]))

\* X509CertificationRequestInfo::from_der
X509CertificationRequestInfo_from_der(b, lo, hi) ==
  AndThen(container(b, lo, hi, BerTag.Sequence), LAMBDA c :
    CertificationRequestInfo_of(lo, c.pos,
      RunFields(b, c.val.lo, c.val.hi, CertificationRequestInfoFields, 1, <<>>)))

(***************************************************************************)
(* Envelopes                                                               *)
(***************************************************************************)
\* The shared shape of the three envelope closures over the content
\* buf[lo..hi): the body, then the signature AlgorithmIdentifier, then the
\* signature BIT STRING
\* The mutant of Envelope: the signature algorithm of the body and the one of
\* the envelope are required to be equal
Envelope_cross_checked(b, hi, body) ==
  AndThen(body, LAMBDA t :
  AndThen(AlgorithmIdentifier_from_der(b, t.pos, hi), LAMBDA a :
  AndThen(parse_signature_value(b, a.pos, hi), LAMBDA v :
    IF "signature" \in DOMAIN t.val /\ t.val.signature # a.val
    THEN Error("SignatureAlgorithmMismatch")
    ELSE Ok(v.pos, [tbs |-> t.val, signature_algorithm |-> a.val, signature_value |-> v.val]))))

Envelope(b, hi, body) ==
  AndThen(body, LAMBDA t :
  AndThen(AlgorithmIdentifier_from_der(b, t.pos, hi), LAMBDA a :
  AndThen(parse_signature_value(b, a.pos, hi), LAMBDA v :
    Ok(v.pos, [tbs |-> t.val, signature_algorithm |-> a.val, signature_value |-> v.val]))))

\* X509Certificate::from_der
X509Certificate_from_der(b, lo, hi) ==
  AndThen(container(b, lo, hi, BerTag.Sequence), LAMBDA c :
  AndThen(Envelope(b, c.val.hi, TbsCertificate_from_der(b, c.val.lo, c.val.hi)), LAMBDA e :
    Ok(c.pos, [tbs_certificate |-> e.val.tbs,
               signature_algorithm |-> e.val.signature_algorithm,
               signature_value |-> e.val.signature_value])))

\* The mutant of CertificateRevocationList_from_der: the remainder is empty
CertificateRevocationList_from_der_to_end(b, lo, hi) ==
  AndThen(container(b, lo, hi, BerTag.Sequence), LAMBDA c :
  AndThen(Envelope(b, c.val.hi, TbsCertList_from_der(b, c.val.lo, c.val.hi)), LAMBDA e :
    Ok(hi, [tbs_cert_list |-> e.val.tbs,
            signature_algorithm |-> e.val.signature_algorithm,
            signature_value |-> e.val.signature_value])))

\* CertificateRevocationList::from_der
CertificateRevocationList_from_der(b, lo, hi) ==
  AndThen(container(b, lo, hi, BerTag.Sequence), LAMBDA c :
  AndThen(Envelope(b, c.val.hi, TbsCertList_from_der(b, c.val.lo, c.val.hi)), LAMBDA e :
    Ok(c.pos, [tbs_cert_list |-> e.val.tbs,
               signature_algorithm |-> e.val.signature_algorithm,
               signature_value |-> e.val.signature_value])))

\* CertificateRevocationList::iter_revoked_certificates: the entries in order
iter_revoked_certificates(crl) == crl.tbs_cert_list.revoked_certificates

\* X509CertificationRequest::from_der
X509CertificationRequest_from_der(b, lo, hi) ==
  AndThen(container(b, lo, hi, BerTag.Sequence), LAMBDA c :
  AndThen(Envelope(b, c.val.hi,
                   X509CertificationRequestInfo_from_der(b, c.val.lo, c.val.hi)), LAMBDA e :
    Ok(c.pos, [certification_request_info |-> e.val.tbs,
               signature_algorithm |-> e.val.signature_algorithm,
               signature_value |-> e.val.signature_value])))

(***************************************************************************)
(* Name rendering.  A text is the sequence of its characters' codes.       *)
(***************************************************************************)

\* ", ", " + " and "="
RdnSeparator == <<44, 32>>
AttributeSeparator == <<32, 43, 32>>
EqualsSign == <<61>>
\* "<X509Error: Invalid X.509 name>"
Placeholder ==
  <<60, 88, 53, 48, 57, 69, 114, 114, 111, 114, 58, 32, 73, 110, 118, 97, 108, 105, 100,
    32, 88, 46, 53, 48, 57, 32, 110, 97, 109, 101, 62>>

\* Result<String, X509Error>::Ok
Rendered(t) == [ok |-> TRUE, val |-> t]

\* the upper-case hexadecimal digit of n
HexDigit(n) == IF n < 10 THEN 48 + n ELSE 55 + n

RECURSIVE HexUpper(_)
\* data_encoding::HEXUPPER.encode
HexUpper(bytes) ==
  IF bytes = <<>> THEN <<>>
  ELSE <<HexDigit(Head(bytes) \div 16), HexDigit(Head(bytes) % 16)>> \o HexUpper(Tail(bytes))

RECURSIVE Decimal(_)
\* the decimal digits of n
Decimal(n) == IF n < 10 THEN <<48 + n>> ELSE Decimal(n \div 10) \o <<48 + (n % 10)>>

RECURSIVE Arcs(_, _, _, _)
\* the arcs of the OID with bytes o from its k-th byte on, cur being the part
\* of an arc read so far; the first byte holds the first two arcs
Arcs(o, k, cur, acc) ==
  IF k > Len(o) THEN acc
  ELSE IF k = 1 THEN Arcs(o, 2, 0, <<o[1] \div 40, o[1] % 40>>)
  ELSE IF o[k] >= 128 THEN Arcs(o, k + 1, cur * 128 + (o[k] - 128), acc)
  ELSE Arcs(o, k + 1, 0, Append(acc, cur * 128 + o[k]))

RECURSIVE Dotted(_)
\* arcs in dotted decimal
Dotted(arcs) ==
  IF Len(arcs) = 1 THEN Decimal(arcs[1])
  ELSE Dotted(SubSeq(arcs, 1, Len(arcs) - 1)) \o <<46>> \o Decimal(arcs[Len(arcs)])

\* format!("{:?}", oid): "OID(" dotted decimal ")"
DebugOid(o) == <<79, 73, 68, 40>> \o Dotted(Arcs(o, 1, 0, <<>>)) \o <<41>>

\* objects::oid2abbrev: CN, C, ST and O are the abbreviations of 2.5.4.3,
\* 2.5.4.6, 2.5.4.8 and 2.5.4.10; an OID without abbreviation is None
oid2abbrev(o) ==
  IF o = <<85, 4, 3>> THEN Some(<<67, 78>>)
  ELSE IF o = <<85, 4, 6>> THEN Some(<<67>>)
  ELSE IF o = <<85, 4, 8>> THEN Some(<<83, 84>>)
  ELSE IF o = <<85, 4, 10>> THEN Some(<<79>>)
  ELSE None

\* the abbreviation of an attribute type, or the OID's debug form
Abbreviation(o) == UnwrapOr(oid2abbrev(o), DebugOid(o))

\* BerObject::as_slice of the value v of an element: the content of an INTEGER,
\* an OCTET STRING or a string type, the data of a BIT STRING; a type with no
\* slice form (BOOLEAN, NULL, OID, SEQUENCE, SET, ...) is BerTypeError
as_slice(b, v) ==
  IF v.structured = 0 /\ v.tag \in {BerTag.Integer, BerTag.OctetString, BerTag.Utf8String, BerTag.NumericString,
                                    BerTag.PrintableString, BerTag.T61String, BerTag.Ia5String}
  THEN Rendered(Bytes(b, v.content.lo, v.content.hi))
  ELSE IF v.structured = 0 /\ v.tag = BerTag.BitString /\ v.content.hi > v.content.lo
  THEN Rendered(Bytes(b, v.content.lo + 1, v.content.hi))
  ELSE Error("Der(BerTypeError)")

\* The mutant of attribute_value_to_string: every value is rendered in hexadecimal
attribute_value_to_string_hex(b, v) ==
  Rendered(HexUpper(Bytes(b, v.content.lo, v.content.hi)))

\* attribute_value_to_string: the text of a NumericString, PrintableString,
\* UTF8String or IA5String; otherwise the hexadecimal of the value's slice, or
\* InvalidX509Name when the value has none
attribute_value_to_string(b, v) ==
  IF v.structured = 0 /\ v.tag \in {BerTag.NumericString, BerTag.PrintableString, BerTag.Utf8String,
                                    BerTag.Ia5String}
  THEN Rendered(Bytes(b, v.content.lo, v.content.hi))
  ELSE or_err(AndThen(as_slice(b, v), LAMBDA x : Rendered(HexUpper(x.val))), "InvalidX509Name")

\* The mutant of Joined: the separator is written before every item
Joined_always(acc, sep, item) == acc \o sep \o item

\* acc followed by item, with sep between them when acc is not empty
Joined(acc, sep, item) == IF Len(acc) = 0 THEN item ELSE acc \o sep \o item

RECURSIVE fold_set(_, _, _, _)
\* The inner fold of x509name_to_string over the attributes of an RDN from the
\* k-th on, acc2 being the Result so far
fold_set(b, set, k, acc2) ==
  IF k > Len(set) THEN acc2
  ELSE AndThen(acc2, LAMBDA vec2 :
       AndThen(attribute_value_to_string(b, set[k].attr_value), LAMBDA val_str :
         fold_set(b, set, k + 1,
                  Rendered(Joined(vec2.val, AttributeSeparator,
                                  Abbreviation(set[k].attr_type) \o EqualsSign \o val_str.val)))))

RECURSIVE fold_rdn_seq(_, _, _, _)
\* The outer fold of x509name_to_string over the RDNs from the k-th on
fold_rdn_seq(b, rdn_seq, k, acc) ==
  IF k > Len(rdn_seq) THEN acc
  ELSE AndThen(acc, LAMBDA vec :
       AndThen(fold_set(b, rdn_seq[k].set, 1, Rendered(<<>>)), LAMBDA v :
         fold_rdn_seq(b, rdn_seq, k + 1, Rendered(Joined(vec.val, RdnSeparator, v.val)))))

\* x509name_to_string
x509name_to_string(b, rdn_seq) == fold_rdn_seq(b, rdn_seq, 1, Rendered(<<>>))

\* what fmt writes for the result r of x509name_to_string
Written(r) == IF r.ok THEN r.val ELSE Placeholder

\* The mutant of X509Name_fmt: a rendering error is returned to the caller
X509Name_fmt_propagating(b, name) ==
  [ok |-> x509name_to_string(b, name.rdn_seq).ok,
   written |-> IF x509name_to_string(b, name.rdn_seq).ok
               THEN x509name_to_string(b, name.rdn_seq).val ELSE <<>>]

\* impl Display for X509Name, fmt: the rendering, or the placeholder when the
\* rendering failed; the fmt::Result is Ok (the formatter itself does not fail)
X509Name_fmt(b, name) ==
  [ok |-> TRUE, written |-> Written(x509name_to_string(b, name.rdn_seq))]

\* the state of the formatting: not done, or done with the fmt::Result r
NotShown == [done |-> FALSE, ok |-> FALSE, written |-> <<>>]
Shown(r) == [done |-> TRUE, ok |-> r.ok, written |-> r.written]

(***************************************************************************)
(* Encodings: the inputs the decoders are run on                           *)
(***************************************************************************)
\* Bounds of the input space
MaxRdn == 2        \* RDNs in a generated Name
MaxTrailing == 1   \* bytes appended after a generated structure
MaxShort == 4      \* length of the exhaustively enumerated short inputs
MaxTime == 3       \* the times of the Validity queries are 0 .. MaxTime + 1

\* the length octets of a definite length
LenBytes(n) ==
  IF n < 128 THEN <<n>>
  ELSE IF n < 256 THEN <<129, n>>
  ELSE <<130, n \div 256, n % 256>>

\* the element with identifier octet t and content c
Enc(t, c) == <<t>> \o LenBytes(Len(c)) \o c

RECURSIVE Concat(_)
Concat(ss) == IF ss = <<>> THEN <<>> ELSE Head(ss) \o Concat(Tail(ss))

RECURSIVE Repeat(_, _)
Repeat(x, n) == IF n = 0 THEN <<>> ELSE x \o Repeat(x, n - 1)

\* bytes appended after a structure
Junk == <<2, 1, 0>>
WithTrailing(S) == { x \o SubSeq(Junk, 1, n) : x \in S, n \in 0 .. MaxTrailing }
\* a structure without its final byte
Truncate(x) == SubSeq(x, 1, Len(x) - 1)

OidUnknown == <<42, 3>>
EncAlgId == Enc(48, Enc(6, OidUnknown))
EncAlgIdNull == Enc(48, Enc(6, <<42, 4>>) \o <<5, 0>>)
\* CN=A, and C=B + CN=A
EncRdn == Enc(49, Enc(48, Enc(6, <<85, 4, 3>>) \o Enc(19, <<65>>)))
EncRdnMulti ==
  Enc(49, Enc(48, Enc(6, <<85, 4, 6>>) \o Enc(19, <<66>>))
          \o Enc(48, Enc(6, <<85, 4, 3>>) \o Enc(12, <<65>>)))
EncName(n) == Enc(48, Repeat(EncRdn, n))
\* 250101000000Z and 350630120000Z
EncNotBefore == Enc(23, <<50, 53, 48, 49, 48, 49, 48, 48, 48, 48, 48, 48, 90>>)
EncNotAfter == Enc(23, <<51, 53, 48, 54, 51, 48, 49, 50, 48, 48, 48, 48, 90>>)
\* 20350630120000Z
EncGeneralized == Enc(24, <<50, 48, 51, 53, 48, 54, 51, 48, 49, 50, 48, 48, 48, 48, 90>>)
EncValidity == Enc(48, EncNotBefore \o EncNotAfter)
EncSpki == Enc(48, EncAlgId \o Enc(3, <<0, 1>>))
EncSignature == Enc(3, <<0, 170>>)
EncSerial == Enc(2, <<0, 7>>)
EncVersion(v) == Enc(160, Enc(2, <<v>>))

\* an Extension: OID o, the critical flag as the bytes crit, value v
EncExt(o, crit, v) == Enc(48, Enc(6, o) \o crit \o Enc(4, v))
EncTrue == <<1, 1, 255>>
EncFalse == <<1, 1, 0>>
ValBasicConstraints == Enc(48, EncTrue \o Enc(2, <<1>>))
ValKeyUsage == Enc(3, <<1, 6>>)
ValBad == <<5, 0>>

\* the extensions the generated structures carry: OID, critical flag, value
ExtCases ==
  [oid : {OidUnknown}, crit : {<<>>, EncFalse, EncTrue}, val : {<<>>, <<1, 2>>}]
  \cup [oid : {OID_X509_EXT_BASIC_CONSTRAINTS}, crit : {<<>>, EncTrue},
        val : {ValBasicConstraints, Enc(48, <<>>), Enc(48, Enc(2, <<1>>)), ValBad}]
  \cup [oid : {OID_X509_EXT_KEY_USAGE}, crit : {<<>>, EncTrue}, val : {ValKeyUsage, ValBad}]
EncCase(e) == EncExt(e.oid, e.crit, e.val)

\* extensions of the six other types that have an accessor: a well-formed
\* value, critical or not, and a value the type's decoder rejects
TypedExtCases ==
  [oid : {OID_X509_EXT_SUBJECT_ALT_NAME, OID_X509_EXT_NAME_CONSTRAINTS,
          OID_X509_EXT_POLICY_MAPPINGS, OID_X509_EXT_POLICY_CONSTRAINTS,
          OID_X509_EXT_EXTENDED_KEY_USAGE},
   crit : {<<>>, EncTrue}, val : {Enc(48, <<>>)}]
  \cup [oid : {OID_X509_EXT_INHIBITANT_ANY_POLICY}, crit : {<<>>, EncTrue}, val : {Enc(2, <<1>>)}]
  \cup [oid : {OID_X509_EXT_SUBJECT_ALT_NAME, OID_X509_EXT_NAME_CONSTRAINTS,
               OID_X509_EXT_POLICY_MAPPINGS, OID_X509_EXT_POLICY_CONSTRAINTS,
               OID_X509_EXT_EXTENDED_KEY_USAGE, OID_X509_EXT_INHIBITANT_ANY_POLICY},
         crit : {<<>>}, val : {ValBad}]
\* the extension of the example of X509Extension::from_der: a
\* subjectKeyIdentifier with a key identifier of 20 bytes
EncSubjectKeyIdentifier ==
  <<48, 29, 6, 3, 85, 29, 14, 4, 22, 4, 20, 163, 5, 47, 24, 96, 80, 194, 137, 10, 221, 43, 33,
    79, 255, 142, 78, 168, 48, 49, 54>>
\* extensions of the four types that x509.rs names without a TbsCertificate
\* accessor: a well-formed value, critical or not, and a value of another type
RegisteredExtCases ==
  [oid : {OID_X509_EXT_SUBJECT_KEY_IDENTIFIER}, crit : {<<>>, EncTrue},
   val : {Enc(4, <<7>>), ValBad}]
  \cup [oid : {OID_X509_EXT_CRL_NUMBER}, crit : {<<>>, EncTrue}, val : {Enc(2, <<5>>), ValBad}]
  \cup [oid : {OID_X509_EXT_REASON_CODE}, crit : {<<>>, EncTrue}, val : {Enc(10, <<1>>), ValBad}]
  \cup [oid : {OID_X509_EXT_INVALIDITY_DATE}, crit : {<<>>, EncTrue},
         val : {Enc(24, <<50, 48, 50, 53, 48, 49, 48, 49, 48, 48, 48, 48, 48, 48, 90>>), ValBad}]
ExtEncodings == { EncCase(e) : e \in ExtCases }
\* the extensions given to X509Extension::from_der
ExtensionEncodings ==
  ExtEncodings \cup { EncCase(e) : e \in TypedExtCases \cup RegisteredExtCases }
  \cup {EncSubjectKeyIdentifier}
\* an extension of each of the eight types, in one list
EncAllTypedExtensions ==
  EncExt(OID_X509_EXT_BASIC_CONSTRAINTS, EncTrue, ValBasicConstraints)
  \o EncExt(OID_X509_EXT_KEY_USAGE, <<>>, ValKeyUsage)
  \o EncExt(OID_X509_EXT_SUBJECT_ALT_NAME, <<>>, Enc(48, <<>>))
  \o EncExt(OID_X509_EXT_NAME_CONSTRAINTS, EncTrue, Enc(48, <<>>))
  \o EncExt(OID_X509_EXT_POLICY_MAPPINGS, <<>>, Enc(48, <<>>))
  \o EncExt(OID_X509_EXT_POLICY_CONSTRAINTS, <<>>, Enc(48, <<>>))
  \o EncExt(OID_X509_EXT_EXTENDED_KEY_USAGE, <<>>, Enc(48, <<>>))
  \o EncExt(OID_X509_EXT_INHIBITANT_ANY_POLICY, EncTrue, Enc(2, <<1>>))

\* the [3] (certificate) or [0] (CRL) EXPLICIT wrapper of a list of extensions
EncExtensions(t, es) == Enc(t, Enc(48, es))

\* lists of extensions with a critical extension of an unknown OID
CriticalUnknownLists ==
  { EncCase(e) : e \in { c \in ExtCases : c.oid = OidUnknown /\ c.crit = EncTrue } }
  \cup { EncExt(OidUnknown, <<>>, <<1>>) \o EncExt(OidUnknown, EncTrue, <<2>>),
         EncExt(OID_X509_EXT_KEY_USAGE, <<>>, ValKeyUsage) \o EncExt(<<42, 5>>, EncTrue, <<2>>) }

ExtensionLists ==
  {<<>>} \cup ExtEncodings \cup CriticalUnknownLists
  \cup { EncExt(OidUnknown, <<>>, <<1>>) \o EncExt(OID_X509_EXT_KEY_USAGE, <<>>, ValKeyUsage) }

\* issuerUniqueID [1] and subjectUniqueID [2]
EncIssuerUid == Enc(129, <<0, 9>>)
EncSubjectUid == Enc(130, <<0, 8>>)

\* elements with the tag numbers 1 and 2 in another class than [1] and [2]:
\* universal 1 (the identifier of a BOOLEAN), application 2
EncUniversalOne == Enc(1, <<0, 9>>)
EncApplicationTwo == Enc(66, <<0, 8>>)

\* a TBSCertificate from its fields, in order
EncTbs(ver, serial, sig, issuer, val, subject, spki, uids, exts) ==
  Enc(48, ver \o serial \o sig \o issuer \o val \o subject \o spki \o uids \o exts)

EncCert(tbs, alg) == Enc(48, tbs \o alg \o EncSignature)

\* a well-formed TBSCertificate with version field ver, a subject of n RDNs and
\* the extensions es
EncTbsWith(ver, n, es) ==
  EncTbs(ver, EncSerial, EncAlgId, EncName(1), EncValidity, EncName(n), EncSpki, <<>>,
         IF es = <<>> THEN <<>> ELSE EncExtensions(163, es))

\* TBSCertificates that end right after subjectPublicKeyInfo
TbsEndingAfterSpki ==
  { EncTbsWith(ver, n, <<>>) : ver \in {<<>>, EncVersion(1), EncVersion(2)}, n \in {0, MaxRdn} }

\* well-formed TBSCertificates
TbsEncodings ==
  { EncTbsWith(ver, n, es) :
      ver \in {<<>>, EncVersion(2)}, n \in {0, MaxRdn}, es \in ExtensionLists }
  \cup
  { EncTbs(EncVersion(1), EncSerial, EncAlgIdNull, EncName(0), EncValidity,
           Enc(48, EncRdnMulti), EncSpki, u, <<>>) :
      u \in {EncIssuerUid, EncSubjectUid, EncIssuerUid \o EncSubjectUid} }
  \cup TbsEndingAfterSpki
  \cup { EncTbsWith(EncVersion(2), 0, es) :
            es \in { EncCase(e) : e \in TypedExtCases } \cup {EncAllTypedExtensions} }
  \cup { EncTbs(EncVersion(2), EncSerial, EncAlgId, EncName(0), EncValidity, EncName(0), EncSpki,
                u, EncExtensions(163, EncExt(OidUnknown, <<>>, <<1>>))) :
            u \in {EncIssuerUid, EncSubjectUid, EncIssuerUid \o EncSubjectUid} }

\* TBSCertificates with, after subjectPublicKeyInfo, an element that has the
\* tag number of a unique identifier and not its class
TbsWithOtherClassUid ==
  { EncTbs(EncVersion(1), EncSerial, EncAlgId, EncName(0), EncValidity, EncName(0), EncSpki,
           u, <<>>) :
      u \in {EncUniversalOne, EncApplicationTwo, EncIssuerUid \o EncApplicationTwo} }

\* the certificates that carry a critical extension of an unknown OID
CriticalUnknownCertificates ==
  { EncCert(EncTbsWith(ver, n, es), EncAlgId) :
      ver \in {<<>>, EncVersion(2)}, n \in {0, MaxRdn}, es \in CriticalUnknownLists }

\* the encodings of the required fields of a TBSCertificate, in order, and an
\* element none of their decoders accepts
FieldEncodings ==
  <<EncVersion(2), EncSerial, EncAlgId, EncName(1), EncValidity, EncName(1), EncSpki>>
BadField == <<4, 1, 0>>

\* the required fields with the one at bad replaced by an element its decoder rejects
BrokenFields(bad) ==
  [k \in DOMAIN FieldEncodings |->
     IF k # bad THEN FieldEncodings[k]
     ELSE IF bad = 1 THEN Enc(160, BadField) ELSE BadField]

\* a TBSCertificate whose required field at bad is broken
BrokenTbs(bad) == Enc(48, Concat(BrokenFields(bad)))

\* TBSCertificates that are not well formed: a broken required field, a [0]
\* wrapper longer than its INTEGER (followed or not by a serial number), and a
\* [3] element whose SEQUENCE holds an element that is not an Extension
TbsBroken ==
  { BrokenTbs(bad) : bad \in DOMAIN FieldEncodings }
  \cup { EncTbs(Enc(160, Enc(2, <<2>>) \o EncSerial), EncSerial, EncAlgId, EncName(0),
                EncValidity, EncName(0), EncSpki, <<>>, <<>>),
         EncTbs(Enc(160, Enc(2, <<2>>) \o EncSerial), <<>>, EncAlgId, EncName(0),
                EncValidity, EncName(0), EncSpki, <<>>, <<>>),
         EncTbs(EncVersion(2), EncSerial, EncAlgId, EncName(0), EncValidity, EncName(0),
                EncSpki, <<>>, EncExtensions(163, EncExt(OidUnknown, <<>>, <<1>>) \o <<5, 0>>)) }

\* a TBSCertificate whose signature is EncAlgId, in an envelope whose
\* signatureAlgorithm is another one
CertificatesWithOtherAlgorithm ==
  { EncCert(t, EncAlgIdNull) : t \in TbsEndingAfterSpki }

\* what is left in the content of a SEQUENCE after its last field: nothing, an
\* element, a byte that starts no element
LeftInside == {<<>>, <<5, 0>>, <<255>>}
\* an AlgorithmIdentifier with j after its parameters, a Validity with j after
\* notAfter
AlgorithmWithBytesLeft(j) == Enc(48, Enc(6, <<42, 4>>) \o <<5, 0>> \o j)
ValidityWithBytesLeft(j) == Enc(48, EncNotBefore \o EncNotAfter \o j)
\* a certificate with vj left in its Validity, aj in both of its
\* AlgorithmIdentifiers and sj in the outer SEQUENCE after the signature
CertificateWithBytesLeft(vj, aj, sj) ==
  Enc(48, EncTbs(EncVersion(2), EncSerial, AlgorithmWithBytesLeft(aj), EncName(1),
                 ValidityWithBytesLeft(vj), EncName(1), EncSpki, <<>>, <<>>)
          \o AlgorithmWithBytesLeft(aj) \o EncSignature \o sj)
CertificatesWithBytesLeft ==
  { CertificateWithBytesLeft(vj, aj, sj) : vj \in LeftInside, aj \in LeftInside, sj \in LeftInside }
CertEncodings ==
  { EncCert(t, a) : t \in TbsEncodings, a \in {EncAlgId} }
  \cup CertificatesWithOtherAlgorithm
  \cup CertificatesWithBytesLeft

\* a revoked-certificate entry, without and with entry extensions
EncRevoked == Enc(48, EncSerial \o EncNotBefore)
EncRevokedExt == Enc(48, Enc(2, <<9>>) \o EncGeneralized
                         \o Enc(48, EncExt(OidUnknown, <<>>, <<1>>)))
\* what follows the revocation date in an entry whose crlEntryExtensions are
\* present and not well formed: a SEQUENCE holding an element that is not an
\* Extension, a SEQUENCE with one after a good Extension, an Extension whose
\* extnValue is missing, and an element that is not a SEQUENCE
MalformedEntryExtensions ==
  { Enc(48, <<5, 0>>), Enc(48, EncExt(OidUnknown, <<>>, <<1>>) \o <<5, 0>>),
    Enc(48, Enc(48, Enc(6, OidUnknown))), <<4, 1, 0>> }
EncRevokedMalformed == { Enc(48, EncSerial \o EncNotBefore \o x) : x \in MalformedEntryExtensions }
\* entries whose serial number is the INTEGER 0a ff 00, 00 and c3, and one
\* whose INTEGER has no content
EncRevokedSerials ==
  { Enc(48, Enc(2, c) \o EncNotBefore) : c \in {<<10, 255, 0>>, <<0>>, <<195>>, <<>>} }
\* an entry with a reasonCode (keyCompromise) and an invalidityDate
EncRevokedReason ==
  Enc(48, Enc(2, <<9>>) \o EncGeneralized
          \o Enc(48, EncExt(OID_X509_EXT_REASON_CODE, <<>>, Enc(10, <<1>>))
                      \o EncExt(OID_X509_EXT_INVALIDITY_DATE, <<>>, EncGeneralized)))
RevokedEncodings ==
  {EncRevoked, EncRevokedExt, EncRevokedReason} \cup EncRevokedMalformed \cup EncRevokedSerials

EncTbsCertList(ver, next, revoked, exts) ==
  Enc(48, ver \o EncAlgId \o EncName(1) \o EncNotBefore \o next \o revoked \o exts)
\* TBSCertLists with the revokedCertificates field omitted
TbsCertListsWithoutRevoked ==
  { EncTbsCertList(ver, next, <<>>, exts) :
      ver \in {<<>>, Enc(2, <<1>>)},
      next \in {<<>>, EncNotAfter},
      exts \in {<<>>, EncExtensions(160, EncExt(OidUnknown, <<>>, <<1>>))} }
\* TBSCertLists with an entry whose crlEntryExtensions are not well formed
TbsCertListsMalformedEntry ==
  { EncTbsCertList(Enc(2, <<1>>), <<>>, Enc(48, EncRevoked \o x), <<>>) : x \in EncRevokedMalformed }
TbsCertListEncodings ==
  { EncTbsCertList(ver, next, revoked, exts) :
      ver \in {<<>>, Enc(2, <<1>>)},
      next \in {<<>>, EncNotAfter},
      revoked \in {Enc(48, <<>>), Enc(48, EncRevoked \o EncRevokedExt)},
      exts \in {<<>>, EncExtensions(160, EncExt(OidUnknown, <<>>, <<1>>))} }
  \cup TbsCertListsWithoutRevoked
  \cup TbsCertListsMalformedEntry
  \cup { EncTbsCertList(Enc(2, <<1>>), EncNotAfter, Enc(48, EncRevokedReason),
                        EncExtensions(160, EncExt(OID_X509_EXT_CRL_NUMBER, <<>>, Enc(2, <<5>>)))) }
\* a TBSCertList whose signature is EncAlgId, in an envelope whose
\* signatureAlgorithm is another one
CrlsWithOtherAlgorithm ==
  { EncCert(EncTbsCertList(ver, <<>>, Enc(48, EncRevoked), <<>>), EncAlgIdNull) :
      ver \in {<<>>, Enc(2, <<1>>)} }
CrlEncodings == { EncCert(t, EncAlgId) : t \in TbsCertListEncodings } \cup CrlsWithOtherAlgorithm

\* CSR attributes: an unknown one and an extensionRequest
EncCriAttribute == Enc(48, Enc(6, OidUnknown) \o Enc(49, <<>>))
EncCriExtensionRequest ==
  Enc(48, Enc(6, OID_PKCS9_EXTENSION_REQUEST)
          \o <<49>> \o LenBytes(Len(Enc(48, EncExt(OidUnknown, <<>>, <<1>>))))
          \o Enc(48, EncExt(OidUnknown, <<>>, <<1>>)))
\* an attribute whose SET has the length octets l, and the attributes that are
\* BER and not DER: an indefinite length, long forms of the length 0, alone
\* and in a CertificationRequestInfo; the long form of 127 is accepted
EncCriAttributeWithLength(l) == Enc(48, Enc(6, OidUnknown) \o <<49>> \o l)
NonDerAttributes ==
  { EncCriAttributeWithLength(l) : l \in {<<128>>, <<129, 0>>, <<130, 0, 0>>, <<129, 127>>} }
  \cup { Enc(48, Enc(2, <<0>>) \o EncName(1) \o EncSpki \o Enc(160, EncCriAttributeWithLength(l))) :
            l \in {<<128>>, <<129, 0>>} }
EncCri(ver, n, attrs) == Enc(48, ver \o EncName(n) \o EncSpki \o attrs)
CriEncodings ==
  { EncCri(ver, n, attrs) :
      ver \in {<<>>, Enc(2, <<0>>), Enc(2, <<1>>), EncVersion(0), Enc(2, <<0, 0>>)},
      n \in {0, 1},
      attrs \in {Enc(160, <<>>), Enc(160, EncCriAttribute), Enc(160, EncCriExtensionRequest)} }
CsrEncodings == { EncCert(t, EncAlgId) : t \in CriEncodings }

\* the encodings of a version field, followed by a serial number
VersionEncodings ==
  { v \o EncSerial :
      v \in {<<>>, EncVersion(0), EncVersion(2), Enc(160, Enc(2, <<2>>) \o <<5, 0>>),
             Enc(160, <<>>), Enc(160, <<2, 1>>), Enc(128, Enc(2, <<1>>)),
             Enc(0, Enc(2, <<1>>)), Enc(160, <<4, 1, 2>>)} }
  \cup {<<>>, <<2>>, <<160>>, <<2, 0>>, <<160, 0>>}

\* Names in which an RDN, or an attribute of an RDN, is not well formed: an
\* element that is not a SET, a SET that is empty, an attribute without a
\* value, and an element that is not an attribute after a good attribute
MalformedNames ==
  { Enc(48, EncRdn \o <<5, 0>>), Enc(48, EncRdn \o <<49, 0>>),
    Enc(48, EncRdn \o <<5, 0>> \o EncRdn),
    Enc(48, <<5, 0>>),
    Enc(48, EncRdn \o Enc(49, Enc(48, Enc(6, <<85, 4, 3>>)))),
    Enc(48, Enc(49, Enc(48, Enc(6, <<85, 4, 3>>) \o Enc(19, <<65>>)) \o <<5, 0>>)) }

\* an attribute with type o and a value with identifier octet t and content v
EncAttribute(o, t, v) == Enc(48, Enc(6, o) \o Enc(t, v))
\* "FR", "Some-State", "Internet Widgits Pty Ltd", "Test1", "Test2"
TextFR == <<70, 82>>
TextSomeState == <<83, 111, 109, 101, 45, 83, 116, 97, 116, 101>>
TextWidgits ==
  <<73, 110, 116, 101, 114, 110, 101, 116, 32, 87, 105, 100, 103, 105, 116, 115, 32, 80, 116,
    121, 32, 76, 116, 100>>
TextTest1 == <<84, 101, 115, 116, 49>>
TextTest2 == <<84, 101, 115, 116, 50>>
\* the RDN CN=Test1 + CN=Test2
EncRdnTests ==
  Enc(49, EncAttribute(<<85, 4, 3>>, 19, TextTest1) \o EncAttribute(<<85, 4, 3>>, 19, TextTest2))
\* the Name C=FR, ST=Some-State, O=Internet Widgits Pty Ltd, CN=Test1 + CN=Test2
EncTestName ==
  Enc(48, Enc(49, EncAttribute(<<85, 4, 6>>, 19, TextFR))
          \o Enc(49, EncAttribute(<<85, 4, 8>>, 19, TextSomeState))
          \o Enc(49, EncAttribute(<<85, 4, 10>>, 19, TextWidgits))
          \o EncRdnTests)

\* attribute values by identifier octet and content: the four text types, an
\* INTEGER, an OCTET STRING, a T61String, a SEQUENCE, a BOOLEAN and a NULL
ValueCases ==
  { <<18, <<49, 50>>>>, <<19, <<65>>>>, <<12, <<65, 98>>>>, <<22, <<97>>>>,
    <<2, <<0, 255>>>>, <<4, <<10, 188>>>>, <<20, <<65>>>>,
    <<48, <<5, 0>>>>, <<1, <<255>>>>, <<5, <<>>>> }
\* the Name of one RDN of one attribute CN with the value case c
EncValueName(c) == Enc(48, Enc(49, EncAttribute(<<85, 4, 3>>, c[1], c[2])))

\* the Names given to Display
DisplayNames ==
  { EncTestName, Enc(48, EncRdnTests),
    Enc(48, Enc(49, EncAttribute(OidUnknown, 19, <<65>>))),
    Enc(48, Enc(49, EncAttribute(<<42, 134, 72>>, 2, <<1>>) \o EncAttribute(<<85, 4, 3>>, 12, <<65>>))),
    Enc(48, EncRdn \o Enc(49, EncAttribute(<<85, 4, 6>>, 48, <<>>)) \o EncRdn) }
  \cup { EncValueName(c) : c \in ValueCases }

\* Names with stateOrProvinceName and streetAddress attributes: ST alone,
\* street alone, both in one RDN, and ST twice in one RDN and once more in
\* another RDN after a CN
StateAndStreetNames ==
  { Enc(48, Enc(49, EncAttribute(OID_X509_STATE_OR_PROVINCE_NAME, 19, <<65>>))),
    Enc(48, Enc(49, EncAttribute(OID_X509_STREET_ADDRESS, 19, <<66>>))),
    Enc(48, Enc(49, EncAttribute(OID_X509_STREET_ADDRESS, 19, <<66>>)
                    \o EncAttribute(OID_X509_STATE_OR_PROVINCE_NAME, 19, <<65>>))),
    Enc(48, Enc(49, EncAttribute(OID_X509_STATE_OR_PROVINCE_NAME, 19, <<65>>)
                    \o EncAttribute(OID_X509_STATE_OR_PROVINCE_NAME, 12, <<66>>))
            \o EncRdn
            \o Enc(49, EncAttribute(OID_X509_STATE_OR_PROVINCE_NAME, 19, <<67>>))) }

NameEncodings ==
  { EncName(n) : n \in 0 .. MaxRdn }
  \cup DisplayNames
  \cup StateAndStreetNames
  \cup { Enc(48, EncRdnMulti), Enc(48, EncRdn \o EncRdnMulti),
         Enc(48, EncRdn \o <<49, 0>>), Enc(48, EncRdn \o <<5, 0>>),
         Enc(48, EncRdn \o Enc(49, Enc(48, Enc(6, <<85, 4, 3>>)))) }
  \cup MalformedNames

\* bodies with the element 05 00 left in the SEQUENCE after the last field: a
\* TBSCertificate after subjectPublicKeyInfo and after its [3] element, a
\* TBSCertList after its [0] element, a CertificationRequestInfo after its
\* attributes; and the envelopes of these bodies
BodiesWithBytesLeft ==
  { EncTbs(EncVersion(2), EncSerial, EncAlgId, EncName(0), EncValidity, EncName(0), EncSpki,
           <<>>, e \o <<5, 0>>) : e \in {<<>>, EncExtensions(163, EncExt(OidUnknown, <<>>, <<1>>))} }
  \cup { EncTbsCertList(Enc(2, <<1>>), <<>>, <<>>,
                         EncExtensions(160, EncExt(OidUnknown, <<>>, <<1>>)) \o <<5, 0>>),
          Enc(48, Enc(2, <<0>>) \o EncName(1) \o EncSpki \o Enc(160, EncCriAttribute) \o <<5, 0>>) }
EnvelopesWithBytesLeft == { EncCert(t, EncAlgId) : t \in BodiesWithBytesLeft }

\* the encodings given to each public decoder
Encodings ==
  [X509Certificate |-> CertEncodings,
   CertificateRevocationList |-> CrlEncodings,
   X509CertificationRequest |-> CsrEncodings,
   X509Extension |-> ExtensionEncodings,
   X509CriAttribute |-> {EncCriAttribute, EncCriExtensionRequest},
   X509Name |-> NameEncodings,
   AlgorithmIdentifier |->
     {EncAlgId, EncAlgIdNull} \cup { AlgorithmWithBytesLeft(j) : j \in LeftInside },
   SubjectPublicKeyInfo |-> {EncSpki}]

\* structures by themselves
Structures ==
  UNION { Encodings[d] : d \in DOMAIN Encodings } \cup CriEncodings \cup TbsEncodings
  \cup TbsCertListEncodings \cup RevokedEncodings

\* each structure, with bytes appended, and with its final byte removed
Inputs ==
  WithTrailing(Structures)
  \cup { Truncate(x) : x \in Structures }
  \cup { EncCert(t, EncAlgId) : t \in TbsBroken } \cup TbsBroken
  \cup VersionEncodings
  \cup NonDerAttributes
  \cup WithTrailing(TbsWithOtherClassUid)
  \cup WithTrailing(BodiesWithBytesLeft \cup EnvelopesWithBytesLeft)
  \cup UNION { [1 .. n -> {0, 1, 2, 48}] : n \in 0 .. MaxShort }

(***************************************************************************)
(* The decode calls                                                        *)
(***************************************************************************)
\* the fields whose decoders an assembler ran, its SEQUENCE having read as c
FieldsRan(b, names, c) ==
  IF c.ok THEN SubSeq(names, 1, Len(RunFields(b, c.val.lo, c.val.hi, names, 1, <<>>)))
  ELSE <<>>

\* the fields of an assembler that a decode of buf[lo..hi) runs the decoders of
FieldsRun(b, lo, hi, names) == FieldsRan(b, names, container(b, lo, hi, BerTag.Sequence))

\* the same for the body of an envelope whose SEQUENCE read as c
EnvelopeFieldsRan(b, names, c) ==
  IF c.ok THEN FieldsRun(b, c.val.lo, c.val.hi, names) ELSE <<>>

EnvelopeFieldsRun(b, lo, hi, names) ==
  EnvelopeFieldsRan(b, names, container(b, lo, hi, BerTag.Sequence))

\* the public decoders, by name, over a whole buffer
Decode(name, b) ==
  CASE name = "X509Certificate" -> X509Certificate_from_der(b, 0, Len(b))
    [] name = "CertificateRevocationList" -> CertificateRevocationList_from_der(b, 0, Len(b))
    [] name = "X509CertificationRequest" -> X509CertificationRequest_from_der(b, 0, Len(b))
    [] name = "X509Extension" -> X509Extension_from_der(b, 0, Len(b))
    [] name = "X509CriAttribute" -> X509CriAttribute_from_der(b, 0, Len(b))
    [] name = "X509Name" -> X509Name_from_der(b, 0, Len(b))
    [] name = "AlgorithmIdentifier" -> AlgorithmIdentifier_from_der(b, 0, Len(b))
    [] name = "SubjectPublicKeyInfo" -> SubjectPublicKeyInfo_from_der(b, 0, Len(b))

NoAnswer == [at |-> 0, valid |-> FALSE, left |-> None]

Called(name, r, fs) ==
  /\ call = "none"
  /\ call' = name
  /\ res' = r
  /\ fields' = fs
  /\ UNCHANGED <<buf, validity, now, query, answer, shown, loop>>

DecodeCertificate ==
  Called("X509Certificate", Decode("X509Certificate", buf),
         EnvelopeFieldsRun(buf, 0, Len(buf), TbsCertificateFields))

DecodeCrl ==
  Called("CertificateRevocationList", Decode("CertificateRevocationList", buf),
         EnvelopeFieldsRun(buf, 0, Len(buf), TbsCertListFields))

DecodeCsr ==
  Called("X509CertificationRequest", Decode("X509CertificationRequest", buf),
         EnvelopeFieldsRun(buf, 0, Len(buf), CertificationRequestInfoFields))

DecodeCri ==
  Called("X509CertificationRequestInfo",
         X509CertificationRequestInfo_from_der(buf, 0, Len(buf)),
         FieldsRun(buf, 0, Len(buf), CertificationRequestInfoFields))

DecodeTbsCertificate ==
  Called("TbsCertificate", TbsCertificate_from_der(buf, 0, Len(buf)),
         FieldsRun(buf, 0, Len(buf), TbsCertificateFields))

DecodeTbsCertList ==
  Called("TbsCertList", TbsCertList_from_der(buf, 0, Len(buf)),
         FieldsRun(buf, 0, Len(buf), TbsCertListFields))

DecodeExtension == Called("X509Extension", Decode("X509Extension", buf), <<>>)

DecodeCriAttribute == Called("X509CriAttribute", Decode("X509CriAttribute", buf), <<>>)

DecodeName == Called("X509Name", Decode("X509Name", buf), <<>>)

DecodeAlgorithmIdentifier ==
  Called("AlgorithmIdentifier", Decode("AlgorithmIdentifier", buf), <<>>)

DecodeSubjectPublicKeyInfo ==
  Called("SubjectPublicKeyInfo", Decode("SubjectPublicKeyInfo", buf), <<>>)

DecodeVersion == Called("X509Version", X509Version_from_der(buf, 0, Len(buf)), <<>>)

DecodeRevokedCertificate ==
  Called("RevokedCertificate", RevokedCertificate_from_der(buf, 0, Len(buf)), <<>>)

\* format!("{}", name) of the Name that X509Name::from_der returned
DisplayName ==
  /\ call = "X509Name"
  /\ res.ok
  /\ ~shown.done
  /\ shown' = Shown(X509Name_fmt(buf, res.val))
  /\ UNCHANGED <<buf, call, res, fields, validity, now, query, answer, loop>>

\* the OIDs asked of X509Name::iter_by_oid: commonName, countryName,
\* stateOrProvinceName, streetAddress and one that is in no Name
QueriedOids ==
  {<<85, 4, 3>>, <<85, 4, 6>>, OID_X509_STATE_OR_PROVINCE_NAME, OID_X509_STREET_ADDRESS,
   <<42, 9>>}

\* a query on the decoded object: it reads res and returns
Asked(name, q, arg, r) ==
  /\ call = name
  /\ res.ok
  /\ query' = q
  /\ answer' = [arg |-> arg, ret |-> r]
  /\ UNCHANGED <<buf, call, res, fields, validity, now, shown, loop>>

\* name.iter_by_oid(&oid).collect() on the Name that X509Name::from_der returned
IterByOid(oid) == Asked("X509Name", "iter_by_oid", oid, iter_by_oid(res.val, oid))

\* name.iter_state_or_province().collect()
IterStateOrProvince ==
  Asked("X509Name", "iter_state_or_province", <<>>, iter_state_or_province(res.val))

\* the typed extension accessors of TbsCertificate that are asked
Accessors ==
  {"basic_constraints", "key_usage", "extended_key_usage", "policy_constraints",
   "inhibit_anypolicy", "policy_mappings", "subject_alternative_name", "name_constraints",
   "is_ca"}

\* one of the eight typed accessors, or tbs.is_ca(), on the TbsCertificate that
\* TbsCertificate::from_der returned
TbsAccessor(q) ==
  Asked("TbsCertificate", q, <<>>,
        CASE q = "basic_constraints" -> basic_constraints(res.val)
          [] q = "key_usage" -> key_usage(res.val)
          [] q = "extended_key_usage" -> extended_key_usage(res.val)
          [] q = "policy_constraints" -> policy_constraints(res.val)
          [] q = "inhibit_anypolicy" -> inhibit_anypolicy(res.val)
          [] q = "policy_mappings" -> policy_mappings(res.val)
          [] q = "subject_alternative_name" -> subject_alternative_name(res.val)
          [] q = "name_constraints" -> name_constraints(res.val)
          [] q = "is_ca" -> is_ca(res.val))

\* x.raw_serial_as_string() on the TbsCertificate or the RevokedCertificate
\* that from_der returned
RawSerialAsString ==
  \E name \in {"TbsCertificate", "RevokedCertificate"} :
    Asked(name, "raw_serial_as_string", <<>>, raw_serial_as_string(buf, res.val.raw_serial))

(***************************************************************************)
(* X509Name::from_der, one round of its loops at a time                    *)
(***************************************************************************)
\* loop is: the state ("idle": not called, "rdns": in many0 before an RDN,
\* "attrs": in many1 before an attribute of that RDN, "done": returned); for
\* the Name and for the RDN being decoded, the position pos in the content
\* that ends at hi, the end of the element and the items acc collected so far;
\* and the result the call returned
NoItems == [pos |-> 0, hi |-> 0, end |-> 0, acc |-> <<>>]
Idle == [state |-> "idle", name |-> NoItems, rdn |-> NoItems, result |-> NoResult]
Finished(r) == [state |-> "done", name |-> NoItems, rdn |-> NoItems, result |-> r]
\* the content c of a SEQUENCE or a SET, nothing of it decoded yet
Entered(c) == [pos |-> c.val.lo, hi |-> c.val.hi, end |-> c.pos, acc |-> <<>>]
\* the items after a round of many0 / many1 that goes on from x
Advanced(items, x) == [items EXCEPT !.pos = x.pos, !.acc = x.val]

\* what a round of many0 / many1 hands on when the loop goes on with r added to acc
Continue(r, acc) == [ok |-> TRUE, more |-> TRUE, pos |-> r.pos, val |-> Append(acc, r.val)]
GoesOn(x) == x.ok /\ "more" \in DOMAIN x

\* The mutant of name_after: a round of many0 that goes on starts again where
\* it started
name_after_stuck(l, x) ==
  IF GoesOn(x) THEN [l EXCEPT !.state = "rdns", !.rdn = NoItems]
  ELSE IF x.ok
  THEN Finished(Ok(l.name.end, [rdn_seq |-> x.val, raw |-> Span(0, x.pos)]))
  ELSE Finished(x)

\* The loop of many0(complete(RelativeDistinguishedName::from_der)) after a
\* round whose outcome is x: it goes on after the RDN, or it has ended and
\* X509Name::from_der returns the Name, raw being what many0 consumed, or it
\* has failed and X509Name::from_der returns the failure
name_after(l, x) ==
  IF GoesOn(x) THEN [l EXCEPT !.state = "rdns", !.name = Advanced(l.name, x), !.rdn = NoItems]
  ELSE IF x.ok
  THEN Finished(Ok(l.name.end, [rdn_seq |-> x.val, raw |-> Span(0, x.pos)]))
  ELSE Finished(x)

\* the round of many0 in which complete(RelativeDistinguishedName::from_der)
\* returned r
rdn_returned(l, r) ==
  name_after(l, many_round(r, l.name.pos, l.name.acc, "NomError(Many0)",
                           LAMBDA y : Continue(y, l.name.acc)))

\* The loop of many1(complete(AttributeTypeAndValue::from_der)) after a round
\* whose outcome is x: it goes on after the attribute, or it has ended and
\* RelativeDistinguishedName::from_der returns the RDN and what follows the
\* SET, or it has failed and RelativeDistinguishedName::from_der returns the
\* failure
rdn_after(l, x) ==
  IF GoesOn(x) THEN [l EXCEPT !.rdn = Advanced(l.rdn, x)]
  ELSE rdn_returned(l, complete(IF x.ok THEN Ok(l.rdn.end, [set |-> x.val]) ELSE x))

\* X509Name::from_der is called: the outer SEQUENCE is read
EnterName ==
  /\ loop.state = "idle"
  /\ loop' = IF container(buf, 0, Len(buf), BerTag.Sequence).ok
             THEN [Idle EXCEPT !.state = "rdns",
                               !.name = Entered(container(buf, 0, Len(buf), BerTag.Sequence))]
             ELSE Finished(container(buf, 0, Len(buf), BerTag.Sequence))
  /\ UNCHANGED <<buf, call, res, fields, validity, now, query, answer, shown>>

\* a round of many0 starts: RelativeDistinguishedName::from_der reads its SET
EnterRdn ==
  /\ loop.state = "rdns"
  /\ loop' = IF container(buf, loop.name.pos, loop.name.hi, BerTag.Set).ok
             THEN [loop EXCEPT !.state = "attrs",
                               !.rdn = Entered(container(buf, loop.name.pos, loop.name.hi, BerTag.Set))]
             ELSE rdn_returned(loop, complete(container(buf, loop.name.pos, loop.name.hi, BerTag.Set)))
  /\ UNCHANGED <<buf, call, res, fields, validity, now, query, answer, shown>>

\* a round of many1(complete(AttributeTypeAndValue::from_der)) from l: the
\* first attribute is required, a later one ends the loop with a recoverable
\* error
attr_round(b, l) ==
  rdn_after(l,
    IF l.rdn.acc = <<>>
    THEN many1_first(complete(AttributeTypeAndValue_from_der(b, l.rdn.pos, l.rdn.hi)),
                     LAMBDA y : Continue(y, <<>>))
    ELSE many_round(complete(AttributeTypeAndValue_from_der(b, l.rdn.pos, l.rdn.hi)),
                    l.rdn.pos, l.rdn.acc, "NomError(Many1)",
                    LAMBDA y : Continue(y, l.rdn.acc)))

\* a round of many1 is run
AttrRound ==
  /\ loop.state = "attrs"
  /\ loop' = attr_round(buf, loop)
  /\ UNCHANGED <<buf, call, res, fields, validity, now, query, answer, shown>>

Init ==
  /\ buf \in Inputs
  /\ call = "none"
  /\ res = NoResult
  /\ fields = <<>>
  /\ validity = [not_before |-> 0, not_after |-> 0]
  /\ now = 0
  /\ query = "none"
  /\ answer = NoAnswer
  /\ shown = NotShown
  /\ loop = Idle

Next ==
  \/ DecodeCertificate
  \/ DecodeCrl
  \/ DecodeCsr
  \/ DecodeCri
  \/ DecodeTbsCertificate
  \/ DecodeTbsCertList
  \/ DecodeExtension
  \/ DecodeCriAttribute
  \/ DecodeName
  \/ DecodeAlgorithmIdentifier
  \/ DecodeSubjectPublicKeyInfo
  \/ DecodeVersion
  \/ DecodeRevokedCertificate
  \/ DisplayName
  \/ \E oid \in QueriedOids : IterByOid(oid)
  \/ IterStateOrProvince
  \/ \E q \in Accessors : TbsAccessor(q)
  \/ RawSerialAsString

Spec == Init /\ [][Next]_vars

(***************************************************************************)
(* The Validity queries                                                    *)
(***************************************************************************)
Times == 0 .. MaxTime + 1

\* the clock advances
Tick ==
  /\ now < MaxTime + 1
  /\ now' = now + 1
  /\ UNCHANGED <<buf, call, res, fields, validity, query, answer, shown, loop>>

\* Validity::is_valid_at(t)
IsValidAt(t) ==
  /\ query' = "is_valid_at"
  /\ answer' = [at |-> t, valid |-> is_valid_at(validity, t), left |-> None]
  /\ UNCHANGED <<buf, call, res, fields, validity, now, shown, loop>>

\* Validity::time_to_expiration()
TimeToExpiration ==
  /\ query' = "time_to_expiration"
  /\ answer' = [at |-> now, valid |-> is_valid_at(validity, now),
                left |-> time_to_expiration(validity, now)]
  /\ UNCHANGED <<buf, call, res, fields, validity, now, shown, loop>>

InitValidity ==
  /\ buf = <<>>
  /\ call = "none"
  /\ res = NoResult
  /\ fields = <<>>
  /\ validity \in [not_before : 0 .. MaxTime, not_after : 0 .. MaxTime]
  /\ now = 0
  /\ query = "none"
  /\ answer = NoAnswer
  /\ shown = NotShown
  /\ loop = Idle

NextValidity ==
  \/ Tick
  \/ \E t \in Times : IsValidAt(t)
  \/ TimeToExpiration

SpecValidity == InitValidity /\ [][NextValidity]_vars

(***************************************************************************)
(* The rounds of X509Name::from_der                                        *)
(***************************************************************************)
\* Names, well formed or not, with bytes appended and with the final byte
\* removed, and every short input over the octets 0, 2, SEQUENCE and SET
LoopInputs ==
  WithTrailing(NameEncodings)
  \cup { Truncate(x) : x \in NameEncodings }
  \cup UNION { [1 .. n -> {0, 2, 48, 49}] : n \in 0 .. MaxShort }

InitLoop ==
  /\ buf \in LoopInputs
  /\ call = "none"
  /\ res = NoResult
  /\ fields = <<>>
  /\ validity = [not_before |-> 0, not_after |-> 0]
  /\ now = 0
  /\ query = "none"
  /\ answer = NoAnswer
  /\ shown = NotShown
  /\ loop = Idle

NextLoop ==
  \/ EnterName
  \/ EnterRdn
  \/ AttrRound

\* a round of many1 can be run, that is ENABLED <<AttrRound>>_vars
AttrRoundEnabled == loop.state = "attrs" /\ attr_round(buf, loop) # loop

\* The call runs on: a step that can be taken is taken (the decoder is one
\* thread of straight-line code).  The weak fairness of AttrRound is written
\* out, with AttrRoundEnabled for ENABLED <<AttrRound>>_vars.
SpecLoop ==
  /\ InitLoop
  /\ [][NextLoop]_vars
  /\ WF_vars(EnterName)
  /\ WF_vars(EnterRdn)
  /\ ([]<>(~AttrRoundEnabled) \/ []<><<AttrRound>>_vars)

(***************************************************************************)
(* Properties                                                              *)
(***************************************************************************)
\* Where the content of the element at lo starts and where the element ends,
\* read off its length octets (the identifier is one octet)
ContentStart(b, lo) ==
  IF Byte(b, lo + 1) < 128 THEN lo + 2 ELSE lo + 2 + (Byte(b, lo + 1) - 128)
ElementEnd(b, lo) ==
  IF Byte(b, lo + 1) < 128 THEN lo + 2 + Byte(b, lo + 1)
  ELSE ContentStart(b, lo) + BytesToInt(b, lo + 2, ContentStart(b, lo))

\* the body of a decoded envelope
Body(v) ==
  IF call = "X509Certificate" THEN v.tbs_certificate
  ELSE IF call = "CertificateRevocationList" THEN v.tbs_cert_list
  ELSE v.certification_request_info

\* C1: when a TBS assembler (TbsCertificate, TbsCertList,
\* X509CertificationRequestInfo) succeeds, raw is the whole TBS element, from its
\* identifier octet to the end of its content, and the returned remainder starts
\* where raw ends; inside an envelope, the raw of the body is the whole first
\* element of the envelope's content.
RawIsWholeElement ==
  /\ (call \in {"TbsCertificate", "TbsCertList", "X509CertificationRequestInfo"} /\ res.ok)
       => /\ res.val.raw = Span(0, ElementEnd(buf, 0))
          /\ res.pos = res.val.raw.hi
  /\ (call \in {"X509Certificate", "CertificateRevocationList", "X509CertificationRequest"}
        /\ res.ok)
       => Body(res.val).raw = Span(ContentStart(buf, 0), ElementEnd(buf, ContentStart(buf, 0)))

\* C2: the entry points X509Certificate, CertificateRevocationList,
\* X509CertificationRequest and X509CertificationRequestInfo ::from_der return a
\* value or an error on every input; none panics.
DecodersNeverPanic ==
  call \in {"X509Certificate", "CertificateRevocationList", "X509CertificationRequest",
            "X509CertificationRequestInfo"}
    => ~IsPanic(res)

\* C3: a certificate with an extension that is critical and whose OID is not in
\* the registry is not decoded: X509Certificate::from_der returns an error.
CriticalUnknownExtensionRejected ==
  (call = "X509Certificate" /\ buf \in WithTrailing(CriticalUnknownCertificates)) => ~res.ok

\* the extension case e, followed by n bytes, is the buffer
IsCase(e, n) == buf = EncCase(e) \o SubSeq(Junk, 1, n)

\* the decoded extension keeps value v, and its variant is Unsupported if u
Keeps(v, u) ==
  /\ res.ok
  /\ Bytes(buf, res.val.value.lo, res.val.value.hi) = v
  /\ u => parsed_extension(res.val) = Unsupported

\* C4: in every extension that X509Extension::from_der decodes, value is the
\* content of the extnValue OCTET STRING, whatever the dispatch produced; an
\* extension that is not critical and whose OID is not in the registry is
\* decoded, and its parsed variant is Unsupported.
ExtensionValueIsContent ==
  call = "X509Extension" =>
    /\ res.ok => /\ res.val.value.lo >= 2
                 /\ Byte(buf, res.val.value.lo - 2) = BerTag.OctetString
                 /\ Byte(buf, res.val.value.lo - 1) = res.val.value.hi - res.val.value.lo
    /\ \A e \in ExtCases : \A n \in 0 .. MaxTrailing :
         IsCase(e, n) => Keeps(e.val, e.oid = OidUnknown /\ e.crit # EncTrue)

\* an extension that is not critical, of an unknown OID and with a value, was decoded
UnknownExtensionDecoded ==
  /\ call = "X509Extension"
  /\ res.ok
  /\ ~res.val.critical
  /\ res.val.oid = OidUnknown
  /\ res.val.value.hi > res.val.value.lo
  /\ parsed_extension(res.val) = Unsupported

\* the decoder of the OID of the extension case e fails on its value
SpecializedFails(e) ==
  \/ e.oid = OID_X509_EXT_BASIC_CONSTRAINTS /\ ~parse_basicconstraints(e.val, 0, Len(e.val)).ok
  \/ e.oid = OID_X509_EXT_KEY_USAGE /\ ~parse_keyusage(e.val, 0, Len(e.val)).ok

\* C5: when the decoder of a known OID fails on the value of an extension that
\* is not critical, X509Extension::from_der still succeeds: the parsed variant is
\* Unsupported and value is retained.
FailedDispatchDegrades ==
  \A e \in ExtCases : \A n \in 0 .. MaxTrailing :
    (call = "X509Extension" /\ e.crit # EncTrue /\ SpecializedFails(e) /\ IsCase(e, n))
      => Keeps(e.val, TRUE) /\ ~res.val.critical

\* a key usage extension, not critical, whose value is not a BIT STRING was decoded
MalformedKeyUsageDecoded ==
  /\ call = "X509Extension"
  /\ buf = EncExt(OID_X509_EXT_KEY_USAGE, <<>>, ValBad)
  /\ res.ok
  /\ parsed_extension(res.val) = Unsupported

\* C6: is_valid_at(t) is true exactly when not_before <= t < not_after.
ValidIffInHalfOpenInterval ==
  query = "is_valid_at" =>
    (answer.valid <=> (validity.not_before <= answer.at /\ answer.at < validity.not_after))

\* is_valid_at(not_after) was asked of a validity that is not empty, and answered false
NotValidAtNotAfter ==
  /\ query = "is_valid_at"
  /\ validity.not_before < validity.not_after
  /\ answer.at = validity.not_after
  /\ ~answer.valid

\* C7: time_to_expiration returns a duration exactly when the validity holds
\* now (not_before <= now < not_after); the duration is not_after - now, it is
\* positive and at most not_after - not_before.
ExpirationOnlyWhenValid ==
  query = "time_to_expiration" =>
    /\ answer.left.some <=> (validity.not_before <= answer.at /\ answer.at < validity.not_after)
    /\ answer.left.some =>
         /\ answer.left.v = validity.not_after - answer.at
         /\ answer.left.v > 0
         /\ answer.left.v <= validity.not_after - validity.not_before

\* time_to_expiration was asked after the validity began, and returned a duration
\* shorter than the whole validity
ExpirationWhileValid ==
  /\ query = "time_to_expiration"
  /\ answer.left.some
  /\ answer.at > validity.not_before
  /\ answer.left.v < validity.not_after - validity.not_before

\* the encodings each public decoder accepts, and those without their final byte
Accepted == [d \in DOMAIN Encodings |-> { x \in Encodings[d] : Decode(d, x).ok }]
TruncatedAccepted == [d \in DOMAIN Encodings |-> { Truncate(x) : x \in Accepted[d] }]

\* C8 (as amended): an encoding that a public decoder accepts, without its
\* final byte, makes that decoder fail: with the incomplete-input error for
\* X509Certificate, CertificateRevocationList, X509CertificationRequest, X509Name,
\* AlgorithmIdentifier and SubjectPublicKeyInfo, with InvalidExtensions for
\* X509Extension and with InvalidAttributes for X509CriAttribute.
TruncationFails ==
  (call \in DOMAIN Encodings /\ buf \in TruncatedAccepted[call]) =>
    /\ ~res.ok
    /\ res = (CASE call = "X509Extension" -> Error("InvalidExtensions")
                [] call = "X509CriAttribute" -> Error("InvalidAttributes")
                [] OTHER -> Incomplete)

\* an extension without its final byte was given to X509Extension::from_der
TruncatedExtensionDecoded ==
  /\ call = "X509Extension"
  /\ buf \in TruncatedAccepted[call]
  /\ res = Error("InvalidExtensions")

\* C8 (as stated): an encoding that a public decoder accepts, without its final
\* byte, makes that decoder fail with the incomplete-input error.
TruncationIsIncomplete ==
  (call \in DOMAIN Encodings /\ buf \in TruncatedAccepted[call]) => res = Incomplete

\* the length of the header of an element with content c
HeaderLen(c) == Len(Enc(48, c)) - Len(c)

\* where the broken field of BrokenTbs(bad) starts
BrokenFieldAt(bad) ==
  HeaderLen(Concat(BrokenFields(bad))) + Len(Concat(SubSeq(FieldEncodings, 1, bad - 1)))

\* the call failed with the failure e of the decoder of field bad, which is
\* the last field it ran a decoder of
PropagatedAs(e, bad) ==
  /\ ~e.ok
  /\ res = e
  /\ fields = SubSeq(TbsCertificateFields, 1, bad)

\* C9: when the decoder of a required field of a TbsCertificate fails with e,
\* TbsCertificate::from_der and X509Certificate::from_der fail with e, return no
\* object, and run the decoder of no later field.
RequiredFieldErrorPropagates ==
  \A bad \in DOMAIN FieldEncodings :
    /\ (call = "TbsCertificate" /\ buf = BrokenTbs(bad)) =>
         PropagatedAs(FieldDecoder(TbsCertificateFields[bad], buf, BrokenFieldAt(bad), Len(buf)),
                      bad)
    /\ (call = "X509Certificate" /\ buf = EncCert(BrokenTbs(bad), EncAlgId)) =>
         PropagatedAs(FieldDecoder(TbsCertificateFields[bad], buf,
                                   HeaderLen(BrokenTbs(bad) \o EncAlgId \o EncSignature)
                                     + BrokenFieldAt(bad),
                                   HeaderLen(BrokenTbs(bad) \o EncAlgId \o EncSignature)
                                     + Len(BrokenTbs(bad))),
                      bad)

\* a certificate whose validity is broken was decoded, and decoding stopped there
BrokenValidityStopped ==
  /\ call = "X509Certificate"
  /\ \E bad \in DOMAIN FieldEncodings : buf = EncCert(BrokenTbs(bad), EncAlgId)
  /\ ~res.ok
  /\ fields # <<>>
  /\ fields[Len(fields)] = "validity"

\* the element at lo carries the context tag [0]
HasVersionTag(b, lo) == lo < Len(b) /\ Byte(b, lo) \in {128, 160}

\* C10: X509Version::from_der, given an input that does not start with the [0]
\* tag, returns V1 and its input unchanged; given one that does, it consumes the
\* whole [0] element, so that in a TbsCertificate the serial number is the
\* element that follows the [0] element.
VersionConsumesWholeElement ==
  /\ (call = "X509Version" /\ res.ok) =>
       IF HasVersionTag(buf, 0) THEN res.pos = ElementEnd(buf, 0) ELSE res = Ok(0, V1)
  /\ (call = "TbsCertificate" /\ res.ok /\ HasVersionTag(buf, ContentStart(buf, 0))) =>
       res.val.raw_serial.lo = ContentStart(buf, ElementEnd(buf, ContentStart(buf, 0)))

\* the header of the first element of the content of the element at 0
FirstHeader(b) == ber_read_element_header(b, ContentStart(b, 0), ElementEnd(b, 0))

\* the version step of X509CertificationRequestInfo::from_der over the content
\* of the element at 0
VersionStep(b) == X509Version_from_der_required(b, ContentStart(b, 0), ElementEnd(b, 0))

\* the first element of the content has a header h whose tag number is not 0
FirstIsNotVersion(h) == h.ok /\ h.val.tag # 0

\* C11: in X509CertificationRequestInfo::from_der, when the first element of the
\* content does not carry the tag [0], the version step returns V1 and consumes
\* nothing: the subject is decoded from where the version step started.
CriVersionDefaultConsumesNothing ==
  (call = "X509CertificationRequestInfo" /\ fields # <<>> /\ FirstIsNotVersion(FirstHeader(buf)))
    => VersionStep(buf) = Ok(ContentStart(buf, 0), V1)

RECURSIVE ElementsFrom(_, _, _, _)
\* after n elements, the number of elements that fill buf[lo..hi) exactly, r
\* being the element at lo; -1 when buf[lo..hi) is not a list of elements
ElementsNext(b, hi, n, r) == IF r.ok THEN ElementsFrom(b, r.pos, hi, n + 1) ELSE -1
ElementsFrom(b, lo, hi, n) ==
  IF lo >= hi THEN n ELSE ElementsNext(b, hi, n, read_tlv(b, lo, hi))

\* C12: when X509Name::from_der succeeds, rdn_seq holds one RDN for each element
\* of the content of the outer SEQUENCE; a Name with an RDN, or an attribute of
\* an RDN, that is not well formed is rejected.
NameAccountsForContent ==
  call = "X509Name" =>
    /\ res.ok => Len(res.val.rdn_seq) = ElementsFrom(buf, ContentStart(buf, 0), ElementEnd(buf, 0), 0)
    /\ buf \in WithTrailing(MalformedNames) => ~res.ok

\* C13: when X509Name::from_der succeeds, as_raw() is the part of the input that
\* was consumed: the input is as_raw() followed by the remainder.
NameRawIsConsumedPrefix ==
  (call = "X509Name" /\ res.ok) => as_raw(res.val) = Span(0, res.pos)

RECURSIVE JoinWith(_, _)
\* the items in order, with sep between two items
JoinWith(items, sep) ==
  IF Len(items) = 0 THEN <<>>
  ELSE IF Len(items) = 1 THEN items[1]
  ELSE JoinWith(SubSeq(items, 1, Len(items) - 1), sep) \o sep \o items[Len(items)]

\* the attribute a as "<abbreviation>=<value>", the value being its text
AttributeText(b, a) ==
  Abbreviation(a.attr_type) \o EqualsSign \o Bytes(b, a.attr_value.content.lo, a.attr_value.content.hi)

\* an RDN as its attributes joined by " + ", a Name as its RDNs joined by ", "
RdnText(b, rdn) == JoinWith([k \in DOMAIN rdn.set |-> AttributeText(b, rdn.set[k])], AttributeSeparator)
NameText(b, name) == JoinWith([k \in DOMAIN name.rdn_seq |-> RdnText(b, name.rdn_seq[k])], RdnSeparator)

\* the values of all the attributes of a Name have a text type
IsTextValue(v) ==
  v.structured = 0 /\ v.tag \in {BerTag.NumericString, BerTag.PrintableString, BerTag.Utf8String, BerTag.Ia5String}
AllTextValued(name) ==
  \A k \in DOMAIN name.rdn_seq : \A j \in DOMAIN name.rdn_seq[k].set :
    IsTextValue(name.rdn_seq[k].set[j].attr_value)

\* "C=FR, ST=Some-State, O=Internet Widgits Pty Ltd, CN=Test1 + CN=Test2"
TextTestName ==
  <<67, 61, 70, 82, 44, 32, 83, 84, 61, 83, 111, 109, 101, 45, 83, 116, 97, 116, 101, 44, 32,
    79, 61, 73, 110, 116, 101, 114, 110, 101, 116, 32, 87, 105, 100, 103, 105, 116, 115, 32,
    80, 116, 121, 32, 76, 116, 100, 44, 32, 67, 78, 61, 84, 101, 115, 116, 49, 32, 43, 32, 67,
    78, 61, 84, 101, 115, 116, 50>>
\* "CN=Test1 + CN=Test2"
TextTests ==
  <<67, 78, 61, 84, 101, 115, 116, 49, 32, 43, 32, 67, 78, 61, 84, 101, 115, 116, 50>>

\* C14: a Name whose attribute values all have a text type is displayed as its
\* RDNs in order joined by ", ", each RDN being its attributes in order joined
\* by " + " and each attribute "<abbreviation>=<value>"; there is no separator
\* before the first RDN or after the last.  The Names of the two examples are
\* displayed as "C=FR, ST=Some-State, O=Internet Widgits Pty Ltd, CN=Test1 +
\* CN=Test2" and "CN=Test1 + CN=Test2".
NameDisplayedAsJoinedRdns ==
  (call = "X509Name" /\ shown.done) =>
    /\ AllTextValued(res.val) => shown.ok /\ shown.written = NameText(buf, res.val)
    /\ buf = EncTestName => shown.written = TextTestName
    /\ buf = Enc(48, EncRdnTests) => shown.written = TextTests

\* the Name of four RDNs of the example was displayed
TestNameDisplayed ==
  /\ call = "X509Name"
  /\ buf = EncTestName
  /\ Len(res.val.rdn_seq) = 4
  /\ shown.done
  /\ shown.written = TextTestName

\* the only attribute of a decoded Name of one RDN
OnlyAttribute(name) == name.rdn_seq[1].set[1]
HasOneAttribute(name) == Len(name.rdn_seq) = 1 /\ Len(name.rdn_seq[1].set) = 1

\* the value v as the claim renders it: its text, or the hexadecimal of its bytes
TextOrHex(b, v) ==
  IF IsTextValue(v) THEN Bytes(b, v.content.lo, v.content.hi)
  ELSE HexUpper(Bytes(b, v.content.lo, v.content.hi))

\* C15: in the display of a Name, an attribute value of type NumericString,
\* PrintableString, UTF8String or IA5String is its text, and a value of any
\* other type, constructed types included, is the upper-case hexadecimal of
\* its bytes.
ValueDisplayedAsTextOrHex ==
  (call = "X509Name" /\ shown.done /\ HasOneAttribute(res.val)) =>
    shown.written = Abbreviation(OnlyAttribute(res.val).attr_type) \o EqualsSign
                      \o TextOrHex(buf, OnlyAttribute(res.val).attr_value)

\* C16: formatting a Name with Display returns no error: it writes the rendered
\* Name, or the placeholder "<X509Error: Invalid X.509 name>" when the rendering
\* failed.
DisplayNeverFails ==
  (call = "X509Name" /\ shown.done) =>
    /\ shown.ok
    /\ shown.written = Written(x509name_to_string(buf, res.val.rdn_seq))
    /\ ~x509name_to_string(buf, res.val.rdn_seq).ok => shown.written = Placeholder

\* a Name with an attribute value that has no text and no slice was displayed
\* as the placeholder
PlaceholderDisplayed ==
  /\ call = "X509Name"
  /\ shown.done
  /\ ~x509name_to_string(buf, res.val.rdn_seq).ok
  /\ shown.ok
  /\ shown.written = Placeholder

\* the TBSCertList of the decoded value v of the call
CertListOf(v) == IF call = "TbsCertList" THEN v ELSE v.tbs_cert_list

\* C17: a TBSCertList in which revokedCertificates is omitted is decoded, by
\* itself and in a CertificateRevocationList; revoked_certificates is the empty
\* list and iter_revoked_certificates() yields no entry.
OmittedRevokedIsEmptyList ==
  /\ (call = "TbsCertList" /\ buf \in WithTrailing(TbsCertListsWithoutRevoked)) =>
       res.ok /\ res.val.revoked_certificates = <<>>
  /\ (call = "CertificateRevocationList"
        /\ buf \in WithTrailing({ EncCert(t, EncAlgId) : t \in TbsCertListsWithoutRevoked })) =>
       /\ res.ok
       /\ res.val.tbs_cert_list.revoked_certificates = <<>>
       /\ Len(iter_revoked_certificates(res.val)) = 0

\* a CRL without revokedCertificates and with crlExtensions was decoded
CrlWithoutRevokedDecoded ==
  /\ call = "CertificateRevocationList"
  /\ buf \in { EncCert(t, EncAlgId) : t \in TbsCertListsWithoutRevoked }
  /\ res.ok
  /\ DOMAIN res.val.tbs_cert_list.extensions # {}
  /\ Len(iter_revoked_certificates(res.val)) = 0

\* C18: an entry whose crlEntryExtensions are present and not well formed is a
\* decode error of RevokedCertificate::from_der, and of the CRL that holds the
\* entry; it is never decoded as an entry with an empty extensions map.
MalformedEntryExtensionsRejected ==
  /\ (call = "RevokedCertificate" /\ buf \in WithTrailing(EncRevokedMalformed)) => ~res.ok
  /\ (call \in {"TbsCertList", "CertificateRevocationList"}
        /\ (buf \in TbsCertListsMalformedEntry
              \/ buf \in { EncCert(t, EncAlgId) : t \in TbsCertListsMalformedEntry })) => ~res.ok

\* the results of the field decoders of TbsCertificate::from_der over the
\* content of the element at 0
TbsSteps(b) == RunFields(b, ContentStart(b, 0), ElementEnd(b, 0), TbsCertificateFields, 1, <<>>)

\* the element at p has the tag [n]: class context-specific, tag number n
HasContextTag(b, p, n) == p < Len(b) /\ Byte(b, p) \div 64 = 2 /\ Byte(b, p) % 32 = n

\* the unique identifier step with result r, run at position p for the tag
\* [n]: Some only when the element at p has the tag [n], and nothing consumed
\* when None
UidStep(b, r, p, n) ==
  /\ r.val.some => HasContextTag(b, p, n) /\ r.pos = ElementEnd(b, p)
  /\ ~r.val.some => r.pos = p

\* the steps t: issuer_uid runs where subject_pki stopped, subject_uid where
\* issuer_uid stopped
UidSteps(b, t) ==
  /\ UidStep(b, t[8], t[7].pos, 1)
  /\ UidStep(b, t[9], t[8].pos, 2)
  /\ res.val.issuer_uid = t[8].val
  /\ res.val.subject_uid = t[9].val

\* C19: a TBSCertificate that ends right after subjectPublicKeyInfo is decoded,
\* with issuer_uid = None, subject_uid = None and an empty extensions map; in
\* every decoded TBSCertificate issuer_uid / subject_uid is Some only when the
\* element at its position has the tag [1] / [2], and an absent one consumes
\* no input.
AbsentOptionalFieldsAreNone ==
  call = "TbsCertificate" =>
    /\ buf \in WithTrailing(TbsEndingAfterSpki) =>
         /\ res.ok
         /\ res.val.issuer_uid = None
         /\ res.val.subject_uid = None
         /\ res.val.extensions = EmptyMap
    /\ res.ok => UidSteps(buf, TbsSteps(buf))

\* a version 1 TBSCertificate that ends right after subjectPublicKeyInfo was decoded
TbsEndingAfterSpkiDecoded ==
  /\ call = "TbsCertificate"
  /\ buf \in TbsEndingAfterSpki
  /\ res.ok
  /\ res.val.version = V1
  /\ res.val.issuer_uid = None
  /\ res.val.subject_uid = None
  /\ res.val.extensions = EmptyMap

\* the buffer up to position p
Prefix(b, p) == SubSeq(b, 1, p)

\* C20: when X509Certificate, CertificateRevocationList or
\* X509CertificationRequest ::from_der succeeds, the remainder starts where the
\* outer SEQUENCE element ends, and the decoded object is the one decoded from
\* that element alone: bytes after the element are returned as they are.
EnvelopeRemainderIsSuffix ==
  (call \in {"X509Certificate", "CertificateRevocationList", "X509CertificationRequest"} /\ res.ok)
    => /\ res.pos = ElementEnd(buf, 0)
       /\ Decode(call, Prefix(buf, ElementEnd(buf, 0))) = res

\* a CRL with entries was decoded from a buffer that goes on after it
CrlWithTrailingBytesDecoded ==
  /\ call = "CertificateRevocationList"
  /\ res.ok
  /\ res.pos < Len(buf)
  /\ Len(iter_revoked_certificates(res.val)) > 0

\* the encoded body of the envelope in b, and the envelope with the same body
\* and the signatureAlgorithm a
EncodedBody(b) == Bytes(b, ContentStart(b, 0), ElementEnd(b, ContentStart(b, 0)))
WithAlgorithm(b, a) == EncCert(EncodedBody(b), a)

\* an AlgorithmIdentifier a and a BIT STRING s decoded from b, their spans
\* replaced by the bytes of b they delimit
AlgorithmIn(b, a) ==
  [algorithm |-> a.algorithm,
   parameters |-> IF a.parameters.some
                  THEN <<a.parameters.v.tag,
                         Bytes(b, a.parameters.v.content.lo, a.parameters.v.content.hi)>>
                  ELSE <<>>]
BitsIn(b, s) == [unused |-> s.unused, data |-> Bytes(b, s.data.lo, s.data.hi)]

\* decoding the envelope e (result d) gives the body, with its signature
\* algorithm, and the signature of the envelope decoded from b as v, and the
\* algorithm decoded from a alone
DecodesWith(e, d, b, v, a) ==
  /\ d.ok
  /\ Bytes(e, Body(d.val).raw.lo, Body(d.val).raw.hi) = Bytes(b, Body(v).raw.lo, Body(v).raw.hi)
  /\ Body(d.val).raw.lo = ContentStart(e, 0)
  /\ AlgorithmIn(e, Body(d.val).signature) = AlgorithmIn(b, Body(v).signature)
  /\ AlgorithmIn(e, d.val.signature_algorithm)
       = AlgorithmIn(a, AlgorithmIdentifier_from_der(a, 0, Len(a)).val)
  /\ BitsIn(e, d.val.signature_value) = BitsIn(b, v.signature_value)

\* the signatureAlgorithm and the signature of the decoded envelope v are the
\* elements that follow the body, in that order
StepsInOrder(b, v, p) ==
  /\ (IF call = "X509Certificate"
      THEN TbsCertificate_from_der(b, ContentStart(b, 0), ElementEnd(b, 0))
      ELSE TbsCertList_from_der(b, ContentStart(b, 0), ElementEnd(b, 0))) = Ok(p, Body(v))
  /\ AlgorithmIdentifier_from_der(b, p, ElementEnd(b, 0))
       = Ok(ElementEnd(b, p), v.signature_algorithm)
  /\ parse_signature_value(b, ElementEnd(b, p), ElementEnd(b, 0)).val = v.signature_value

\* C21: a decoded certificate or CRL holds the body decoded from the first
\* element of the outer content, the AlgorithmIdentifier decoded from the
\* element after it and the signature decoded from the element after that;
\* replacing the envelope's signatureAlgorithm by any other AlgorithmIdentifier,
\* equal to the body's signature or not, still decodes, to the same body and
\* signature and to the algorithm as it is encoded.
EnvelopeAlgorithmsNotCrossChecked ==
  (call \in {"X509Certificate", "CertificateRevocationList"} /\ res.ok) =>
    /\ StepsInOrder(buf, res.val, ElementEnd(buf, ContentStart(buf, 0)))
    /\ \A a \in {EncAlgId, EncAlgIdNull} :
         DecodesWith(WithAlgorithm(buf, a), Decode(call, WithAlgorithm(buf, a)), buf, res.val, a)

\* a certificate or a CRL whose two algorithm identifiers differ was decoded
MismatchedAlgorithmsDecoded ==
  /\ call \in {"X509Certificate", "CertificateRevocationList"}
  /\ res.ok
  /\ Body(res.val).signature # res.val.signature_algorithm
  /\ AlgorithmIn(buf, Body(res.val).signature).algorithm = OidUnknown
  /\ AlgorithmIn(buf, res.val.signature_algorithm) = [algorithm |-> <<42, 4>>, parameters |-> <<5, <<>>>>]

\* the positions <<i, j>> of the attributes of a Name (attribute j of RDN i),
\* those whose type is oid, and the order of the sequence
Positions(name) ==
  UNION { { <<i, j>> : j \in 1 .. Len(name.rdn_seq[i].set) } : i \in 1 .. Len(name.rdn_seq) }
AttributeAt(name, p) == name.rdn_seq[p[1]].set[p[2]]
OfType(name, oid) == { p \in Positions(name) : AttributeAt(name, p).attr_type = oid }
Before(p, q) == p[1] < q[1] \/ (p[1] = q[1] /\ p[2] < q[2])
Rank(S, p) == Cardinality({ q \in S : Before(q, p) }) + 1

\* items is the attributes at the positions S, in the order of the sequence
YieldsExactly(name, items, S) ==
  /\ Len(items) = Cardinality(S)
  /\ \A p \in S : items[Rank(S, p)] = AttributeAt(name, p)

\* C22: iter_state_or_province yields the attributes of the Name whose type is
\* stateOrProvinceName (2.5.4.8), in name order, and no other attribute.
StateOrProvinceYieldsStateAttributes ==
  (call = "X509Name" /\ query = "iter_state_or_province") =>
    YieldsExactly(res.val, answer.ret, OfType(res.val, OID_X509_STATE_OR_PROVINCE_NAME))

\* C23: iter_by_oid(oid) yields the attributes whose attr_type is oid, across
\* all RDNs and in the order of the sequence: none when the OID is absent, one
\* when it is present once, k when it is present k times, several times in one
\* multi-valued RDN included.
IterByOidYieldsAttributesOfType ==
  (call = "X509Name" /\ query = "iter_by_oid") =>
    YieldsExactly(res.val, answer.ret, OfType(res.val, answer.arg))

\* stateOrProvinceName was asked of a Name that has it twice in its first RDN
\* and once in its third, and three attributes were returned
ThreeStateAttributesYielded ==
  /\ call = "X509Name"
  /\ query = "iter_by_oid"
  /\ answer.arg = OID_X509_STATE_OR_PROVINCE_NAME
  /\ Len(res.val.rdn_seq) = 3
  /\ OfType(res.val, answer.arg) = {<<1, 1>>, <<1, 2>>, <<3, 1>>}
  /\ Len(answer.ret) = 3

\* the entry of the extensions map m under oid is of the variant
HoldsVariant(m, oid, variant) ==
  \E o \in DOMAIN m : o = oid /\ m[o].parsed_extension.variant = variant

\* ret is Some((critical, v)) of the entry under oid when that entry is of the
\* variant, and None otherwise
ProjectsEntry(ret, m, oid, variant) ==
  /\ ret.some <=> HoldsVariant(m, oid, variant)
  /\ ret.some => ret.v = <<m[oid].critical, m[oid].parsed_extension>>

\* the OID and the variant of each typed accessor, as RFC 5280 numbers them:
\* id-ce 19, 15, 37, 36, 54, 33, 17, 30
AccessorEntry ==
  [basic_constraints |-> <<<<85, 29, 19>>, "BasicConstraints">>,
   key_usage |-> <<<<85, 29, 15>>, "KeyUsage">>,
   extended_key_usage |-> <<<<85, 29, 37>>, "ExtendedKeyUsage">>,
   policy_constraints |-> <<<<85, 29, 36>>, "PolicyConstraints">>,
   inhibit_anypolicy |-> <<<<85, 29, 54>>, "InhibitAnyPolicy">>,
   policy_mappings |-> <<<<85, 29, 33>>, "PolicyMappings">>,
   subject_alternative_name |-> <<<<85, 29, 17>>, "SubjectAlternativeName">>,
   name_constraints |-> <<<<85, 29, 30>>, "NameConstraints">>]

\* what an accessor returned is what the decoded TbsCertificate holds
AccessorProjects ==
  /\ query \in DOMAIN AccessorEntry =>
       ProjectsEntry(answer.ret, res.val.extensions, AccessorEntry[query][1],
                     AccessorEntry[query][2])
  /\ query = "is_ca" =>
       (answer.ret <=>
          /\ HoldsVariant(res.val.extensions, OID_X509_EXT_BASIC_CONSTRAINTS, "BasicConstraints")
          /\ res.val.extensions[OID_X509_EXT_BASIC_CONSTRAINTS].parsed_extension.ca)

\* an accessor call leaves the buffer and the decoded object as they are, and
\* the same accessor called again returns the same
AccessorOnlyReads ==
  query' \in Accessors =>
    /\ buf' = buf /\ call' = call /\ res' = res
    /\ query = query' => answer' = answer

\* C24: each of the eight typed accessors returns Some((critical, v)) iff the
\* extensions map holds an entry under the accessor's OID whose parsed variant
\* is the accessor's, critical and v being that entry's, and None when the OID
\* is absent or its entry is of another variant; is_ca() is true iff
\* basic_constraints() is Some with ca = true; an accessor call changes nothing
\* of the decoded tree and a repeated call returns the same result.
AccessorsAreViewsOfTheMap ==
  /\ [](call = "TbsCertificate" => AccessorProjects)
  /\ [][AccessorOnlyReads]_vars

\* basic_constraints() returned a critical BasicConstraints with ca = true
CriticalCaConstraintsReturned ==
  /\ call = "TbsCertificate"
  /\ query = "basic_constraints"
  /\ answer.ret.some
  /\ answer.ret.v[1]
  /\ answer.ret.v[2].variant = "BasicConstraints"
  /\ answer.ret.v[2].ca

\* the characters 0123456789abcdef and the character ':'
LowerHexAlphabet == <<48, 49, 50, 51, 52, 53, 54, 55, 56, 57, 97, 98, 99, 100, 101, 102>>
ColonSign == <<58>>

\* the text t is the bytes, in order, each as two lower-case hexadecimal
\* digits, with ':' between two bytes and neither before the first nor after
\* the last
IsColonSeparatedHex(t, bytes) ==
  /\ Len(t) = IF bytes = <<>> THEN 0 ELSE 3 * Len(bytes) - 1
  /\ \A k \in 1 .. Len(bytes) :
       /\ t[3 * k - 2] = LowerHexAlphabet[(bytes[k] \div 16) + 1]
       /\ t[3 * k - 1] = LowerHexAlphabet[(bytes[k] % 16) + 1]
       /\ k < Len(bytes) => <<t[3 * k]>> = ColonSign

\* C25: raw_serial_as_string, on a TbsCertificate and on a RevokedCertificate,
\* returns the bytes of the raw serial in order, each as two lower-case
\* hexadecimal digits, separated by ':' with no leading or trailing ':'
\* (3n - 1 characters for n >= 1 bytes), and the empty string for no byte.
RawSerialIsColonSeparatedHex ==
  (call \in {"TbsCertificate", "RevokedCertificate"} /\ query = "raw_serial_as_string") =>
    IsColonSeparatedHex(answer.ret, Bytes(buf, res.val.raw_serial.lo, res.val.raw_serial.hi))

\* the serial 0a ff 00 of a revoked certificate was returned as "0a:ff:00"
SerialOfEntryFormatted ==
  /\ call = "RevokedCertificate"
  /\ query = "raw_serial_as_string"
  /\ Bytes(buf, res.val.raw_serial.lo, res.val.raw_serial.hi) = <<10, 255, 0>>
  /\ answer.ret = <<48, 97, 58, 102, 102, 58, 48, 48>>

\* the position of the items is in the content, which is in the buffer
InContent(items) == 0 <= items.pos /\ items.pos <= items.hi /\ items.hi <= Len(buf)

\* while the call runs, the remainder of every step is a suffix of the step's
\* input: the RDN is inside what is left of the Name; what the call returns is
\* what X509Name::from_der returns, the remainder being a suffix of the buffer
RemainderIsSuffix ==
  /\ loop.state \in {"rdns", "attrs"} => InContent(loop.name) /\ Len(loop.name.acc) <= loop.name.pos
  /\ loop.state = "attrs" =>
       /\ AttrRoundEnabled
       /\ InContent(loop.rdn)
       /\ loop.name.pos < loop.rdn.pos
       /\ loop.rdn.end <= loop.name.hi
       /\ Len(loop.rdn.acc) <= loop.rdn.pos - loop.name.pos
  /\ loop.state = "done" =>
       /\ loop.result = X509Name_from_der(buf, 0, Len(buf))
       /\ loop.result.ok => 0 < loop.result.pos /\ loop.result.pos <= Len(buf)

\* a round of many1 or of many0 after which the loop goes on has consumed at
\* least one byte and has collected one more item
RoundConsumes ==
  /\ (loop.state = "attrs" /\ loop'.state = "attrs") =>
       /\ loop'.rdn.pos > loop.rdn.pos
       /\ Len(loop'.rdn.acc) = Len(loop.rdn.acc) + 1
  /\ (loop.state = "attrs" /\ loop'.state = "rdns") =>
       /\ loop'.name.pos > loop.name.pos
       /\ Len(loop'.name.acc) = Len(loop.name.acc) + 1

\* C26: X509Name::from_der terminates on every input, well formed or not: the
\* remainder of each step is a suffix of the step's input, a round of the loop
\* over the RDNs of the Name and of the loop over the attributes of an RDN
\* either consumes at least one byte or ends the loop, and the call returns.
NameDecodingTerminates ==
  /\ []RemainderIsSuffix
  /\ [][RoundConsumes]_vars
  /\ <>(loop.state = "done")

\* the call returned a Name of three RDNs, the first of two attributes, after
\* as many rounds
NameOfThreeRdnsReturned ==
  /\ loop.state = "done"
  /\ loop.result.ok
  /\ Len(loop.result.val.rdn_seq) = 3
  /\ Len(loop.result.val.rdn_seq[1].set) = 2

\* the first element of the content of the element at 0 is an INTEGER
FirstIsInteger(b) == FirstHeader(b).ok /\ Byte(b, ContentStart(b, 0)) = BerTag.Integer

\* the value of the INTEGER at p
IntegerAt(b, p) == BytesToInt(b, ContentStart(b, p), ElementEnd(b, p))

\* C27: when the version field of a CertificationRequestInfo is the bare
\* INTEGER v, the version step consumes exactly that INTEGER element, whatever
\* its length, and a request that is decoded has the version v and its subject
\* decoded from the element that follows the INTEGER.
CriVersionIsEncodedInteger ==
  (call = "X509CertificationRequestInfo" /\ fields # <<>> /\ FirstIsInteger(buf)) =>
    /\ VersionStep(buf).ok => VersionStep(buf).pos = ElementEnd(buf, ContentStart(buf, 0))
    /\ res.ok =>
         /\ res.val.version = IntegerAt(buf, ContentStart(buf, 0))
         /\ res.val.subject.raw.lo = ElementEnd(buf, ContentStart(buf, 0))

\* the AlgorithmIdentifier decoded from the encoding a alone, by its bytes
AlgorithmOf(a) == AlgorithmIn(a, AlgorithmIdentifier_from_der(a, 0, Len(a)).val)

\* buf is the structure x followed by n bytes, and the call returned those n
\* bytes as the remainder
IsFollowed(x, n) == buf = x \o SubSeq(Junk, 1, n)
ReturnsAfter(n) == res.ok /\ res.pos = Len(buf) - n /\ res.pos = ElementEnd(buf, 0)

\* the certificate decoded from buf has the fields of a certificate that has
\* nothing left in its SEQUENCEs
HoldsFieldsAsEncoded(v) ==
  /\ v.tbs_certificate.validity = Validity_from_der(EncValidity, 0, Len(EncValidity)).val
  /\ AlgorithmIn(buf, v.tbs_certificate.signature) = AlgorithmOf(EncAlgIdNull)
  /\ Bytes(buf, v.tbs_certificate.issuer.raw.lo, v.tbs_certificate.issuer.raw.hi) = EncName(1)
  /\ Bytes(buf, v.tbs_certificate.subject.raw.lo, v.tbs_certificate.subject.raw.hi) = EncName(1)
  /\ AlgorithmIn(buf, v.signature_algorithm) = AlgorithmOf(EncAlgIdNull)
  /\ BitsIn(buf, v.signature_value) = [unused |-> 0, data |-> <<170>>]
  /\ v.tbs_certificate.raw = Span(ContentStart(buf, 0), ElementEnd(buf, ContentStart(buf, 0)))

\* C28: bytes left in the content of a SEQUENCE after its last field, after
\* notAfter in a Validity, after the parameters in an AlgorithmIdentifier,
\* after the signature in a certificate, are ignored: the call succeeds, the
\* decoded fields are those of the structure without these bytes, and the
\* remainder starts after the declared length of the outer SEQUENCE.
BytesLeftInsideAreIgnored ==
  \A n \in 0 .. MaxTrailing :
    /\ \A j \in LeftInside :
         (call = "AlgorithmIdentifier" /\ IsFollowed(AlgorithmWithBytesLeft(j), n)) =>
           /\ ReturnsAfter(n)
           /\ AlgorithmIn(buf, res.val) = AlgorithmOf(EncAlgIdNull)
    /\ \A vj \in LeftInside, aj \in LeftInside, sj \in LeftInside :
         (call = "X509Certificate" /\ IsFollowed(CertificateWithBytesLeft(vj, aj, sj), n)) =>
           /\ ReturnsAfter(n)
           /\ HoldsFieldsAsEncoded(res.val)

\* a certificate with an element left after notAfter, a byte that starts no
\* element after the parameters of both algorithms and an element after the
\* signature was decoded, a byte following it
CertificateWithBytesLeftDecoded ==
  /\ call = "X509Certificate"
  /\ IsFollowed(CertificateWithBytesLeft(<<5, 0>>, <<255>>, <<5, 0>>), 1)
  /\ res.ok
  /\ res.pos = Len(buf) - 1
  /\ res.val.tbs_certificate.validity.not_before < res.val.tbs_certificate.validity.not_after
====
